---- MODULE Spec2Model ----
(***************************************************************************)
(* Game Boy emulator: the memory bus (emulator/memory.rs), the CPU         *)
(* execution engine (emulator/cpu/mod.rs, opcodes.rs, registers.rs) and    *)
(* the pixel pipeline (emulator/ppu.rs), as state machines.                *)
(*                                                                         *)
(* Bytes are 0..255 and words 0..65535; every u8/u16 operation of the      *)
(* source is reduced modulo its width.  `+=`/`-=`/`+`/`-` on u8/u16 panic  *)
(* on overflow in a build with overflow checks and wrap otherwise; the     *)
(* build is the variable overflow_checks, fixed by Init.                   *)
(***************************************************************************)
EXTENDS Integers, Sequences, FiniteSets, TLC

VARIABLES
    cpu,              \* Cpu: reg.{a,b,c,d,e,f,h,l}, sp, pc, ime
    bus,              \* MemoryBus: mem (sparse), rom, window, unmapped
    ppu,              \* Ppu: mode, counters, fetcher, FIFO, frame writes
    res,              \* outcome of the last operation
    prev,             \* history: the state the last operation started from
    trace,            \* history: the operations performed so far
    elapsed,          \* history: cycles the PPU has consumed with the LCD on
    emu,              \* Emulator: timer_cycles, frames, and tick's position
    overflow_checks   \* build profile: TRUE = overflow panics, FALSE = wraps

vars == <<cpu, bus, ppu, res, prev, trace, elapsed, emu, overflow_checks>>

-----------------------------------------------------------------------------
(* Bit arithmetic on bytes and words                                       *)

Pow2(n) == <<1, 2, 4, 8, 16, 32, 64, 128, 256, 512, 1024, 2048, 4096, 8192, 16384, 32768, 65536>>[n + 1]

Byte == 0..255

\* u8::get_bit: (self & (1 << bit)) >> bit
GetBit(x, bit) == (x \div Pow2(bit)) % 2

\* u8::set_bit: *self |= 1 << bit
SetBit(x, bit) == IF GetBit(x, bit) = 1 THEN x ELSE x + Pow2(bit)

\* u8::clear_bit: *self &= !(1 << bit)
ClearBit(x, bit) == IF GetBit(x, bit) = 1 THEN x - Pow2(bit) ELSE x

RECURSIVE XorBits(_, _, _)
XorBits(x, y, n) ==
    IF n = 0 THEN 0
    ELSE ((x + y) % 2) + 2 * XorBits(x \div 2, y \div 2, n - 1)

RECURSIVE AndBits(_, _, _)
AndBits(x, y, n) ==
    IF n = 0 THEN 0
    ELSE ((x % 2) * (y % 2)) + 2 * AndBits(x \div 2, y \div 2, n - 1)

RECURSIVE OrBits(_, _, _)
OrBits(x, y, n) ==
    IF n = 0 THEN 0
    ELSE (IF (x % 2) + (y % 2) > 0 THEN 1 ELSE 0) + 2 * OrBits(x \div 2, y \div 2, n - 1)

Hi(w) == (w \div 256) % 256
Lo(w) == w % 256
Word(hi, lo) == hi * 256 + lo

-----------------------------------------------------------------------------
(* Memory bus                                                              *)
(* The 64 KiB of the eleven blocks are kept sparsely: bus.mem holds the    *)
(* bytes that differ from the block's base content (0xFF from              *)
(* MemoryBlock::new, the cartridge image where load_rom copied it).        *)

\* Byte i of the cartridge image (Cartridge::bytes): an input, a fixed pattern.
CartByte(i) == (i * 7 + (i \div 256) * 3 + 1) % 256

\* rom_banks.len(): load_rom pushes four banks for an MBC1 cartridge, none otherwise.
RomBankCount(b) == IF b.rom = "mbc1" THEN 4 ELSE 0

\* addr_to_block_addr: the block index and the offset in the block.
AddrToBlockAddr(addr) ==
    IF addr <= 16383 THEN <<0, addr>>
    ELSE IF addr <= 32767 THEN <<1, addr - 16384>>
    ELSE IF addr <= 40959 THEN <<2, addr - 32768>>
    ELSE IF addr <= 49151 THEN <<3, addr - 40960>>
    ELSE IF addr <= 53247 THEN <<4, addr - 49152>>
    ELSE IF addr <= 57343 THEN <<5, addr - 53248>>
    ELSE IF addr <= 65023 THEN <<6, addr - 57344>>
    ELSE IF addr <= 65183 THEN <<7, addr - 65024>>
    ELSE IF addr <= 65279 THEN <<8, addr - 65184>>
    ELSE IF addr <= 65407 THEN <<9, addr - 65280>>
    ELSE <<10, addr - 65408>>

\* MemoryBlock::new sizes of the eleven blocks of MemoryBus::new.
BlockSize(block) ==
    <<16384, 16384, 8192, 8192, 4096, 4096, 7680, 160, 96, 128, 128>>[block + 1]

\* Content of a byte no write_u8 has stored to yet.
BaseByte(b, addr) ==
    IF addr < 256 THEN (IF b.unmapped THEN CartByte(addr) ELSE 255)
    ELSE IF addr < 16384 THEN (IF b.rom = "none" THEN 255 ELSE CartByte(addr))
    ELSE IF addr < 32768 THEN
        (IF b.window >= 0 THEN CartByte(b.window * 16384 + (addr - 16384))
         ELSE IF b.rom = "none" THEN 255 ELSE CartByte(addr))
    ELSE 255

\* First address of each of the eleven blocks (the inverse of addr_to_block_addr).
BlockStart(block) ==
    <<0, 16384, 32768, 40960, 49152, 53248, 57344, 65024, 65184, 65280, 65408>>[block + 1]

\* MemoryBlock::read through the block table.
BlockRead(b, block, off) ==
    LET addr == BlockStart(block) + off IN
    IF addr \in DOMAIN b.mem THEN b.mem[addr] ELSE BaseByte(b, addr)

\* MemoryBus::read_u8
ReadU8(b, addr) ==
    LET In(ba) == BlockRead(b, ba[1], ba[2]) IN In(AddrToBlockAddr(addr))

\* MemoryBlock::write through the block table; the sparse map stays canonical.
StoreByte(b, addr, value) ==
    IF value = BaseByte(b, addr)
    THEN [b EXCEPT !.mem = [x \in (DOMAIN b.mem) \ {addr} |-> b.mem[x]]]
    ELSE [b EXCEPT !.mem = [x \in (DOMAIN b.mem) \cup {addr} |->
                               IF x = addr THEN value ELSE b.mem[x]]]

\* MemoryBus::set_rom_bank: memory[1] = rom_banks[bank_number].clone();
\* indexing past rom_banks.len() panics.
SetRomBank(b, value) ==
    LET bank_number == IF value = 0 THEN 1 ELSE value % 32 IN
    IF bank_number >= RomBankCount(b)
    THEN [bus |-> b, panic |-> TRUE]
    ELSE [bus |-> [b EXCEPT !.window = bank_number,
                            !.mem = [x \in {a \in DOMAIN b.mem : a < 16384 \/ a > 32767}
                                       |-> b.mem[x]]],
          panic |-> FALSE]

\* MemoryBus::unmap_boot_rom: rom.as_ref().unwrap() panics without a cartridge;
\* load_range(0x0000..0x0100, &replacement[0..0x100]).
UnmapBootRom(b) ==
    IF b.rom = "none"
    THEN [bus |-> b, panic |-> TRUE]
    ELSE [bus |-> [b EXCEPT !.unmapped = TRUE,
                            !.mem = [x \in {a \in DOMAIN b.mem : a > 255} |-> b.mem[x]]],
          panic |-> FALSE]

\* MemoryBus::write_u8
WriteU8(b, addr, value) ==
    IF addr >= 8192 /\ addr <= 16383 THEN SetRomBank(b, value)
    ELSE IF addr = 65284 THEN [bus |-> StoreByte(b, addr, 0), panic |-> FALSE]
    ELSE IF addr = 65360 THEN
        LET Latch(u) == IF u.panic THEN u
                        ELSE [bus |-> StoreByte(u.bus, addr, value), panic |-> FALSE]
        IN  Latch(UnmapBootRom(b))
    ELSE [bus |-> StoreByte(b, addr, value), panic |-> FALSE]

\* A mutant of ReadU16: the byte at addr is taken as the high byte.
ReadU16BigEndian(b, addr) ==
    LET In(ba) ==
            IF ba[2] + 1 >= BlockSize(ba[1])
            THEN [value |-> 0, panic |-> TRUE]
            ELSE [value |-> Word(BlockRead(b, ba[1], ba[2]), BlockRead(b, ba[1], ba[2] + 1)),
                  panic |-> FALSE]
    IN  In(AddrToBlockAddr(addr))

\* MemoryBus::read_u16: both bytes are read from the block of addr; at the last
\* byte of a block the second index is out of the block's Vec and panics.
ReadU16(b, addr) ==
    LET In(ba) ==
            IF ba[2] + 1 >= BlockSize(ba[1])
            THEN [value |-> 0, panic |-> TRUE]
            ELSE [value |-> Word(BlockRead(b, ba[1], ba[2] + 1), BlockRead(b, ba[1], ba[2])),
                  panic |-> FALSE]
    IN  In(AddrToBlockAddr(addr))

\* The loop of get_range from position (block, addr) with n bytes to go;
\* advance tells whether the block index moves on at the end of a block.
RECURSIVE GetRangeLoop(_, _, _, _, _, _)
GetRangeLoop(b, block, addr, n, bytes, advance) ==
    IF n = 0 THEN bytes
    ELSE LET Next(a) ==
                 IF a >= BlockSize(block)
                 THEN GetRangeLoop(b, IF advance THEN block + 1 ELSE block, 0, n - 1,
                                   Append(bytes, BlockRead(b, block, addr)), advance)
                 ELSE GetRangeLoop(b, block, a, n - 1,
                                   Append(bytes, BlockRead(b, block, addr)), advance)
         IN  Next(addr + 1)

\* get_range with the block step as a parameter; a Range<u16> whose start is
\* not below its end is empty.
GetRangeCore(b, start, end, advance) ==
    IF end > b.size THEN [kind |-> "OutOfRange", value |-> <<>>]
    ELSE LET From(ba) ==
                 [kind |-> "Range",
                  value |-> GetRangeLoop(b, ba[1], ba[2],
                                         IF end > start THEN end - start ELSE 0,
                                         <<>>, advance)]
         IN  From(AddrToBlockAddr(start))

\* A mutant of GetRange: at the end of a block the offset wraps to 0 but the
\* block index stays.
GetRangeSameBlock(b, start, end) == GetRangeCore(b, start, end, FALSE)

\* MemoryBus::get_range
GetRange(b, start, end) == GetRangeCore(b, start, end, TRUE)

-----------------------------------------------------------------------------
(* CPU: a machine is [cpu, bus, panic]; every method maps a machine to a   *)
(* machine, and a panicked machine stays as it was when the panic struck.  *)

Machine(c, b) == [cpu |-> c, bus |-> b, panic |-> FALSE]

Panicked(m) == [m EXCEPT !.panic = TRUE]

\* Cpu::write_mem_u8
WriteMemU8(m, addr, value) ==
    IF m.panic THEN m
    ELSE LET Written(w) == [m EXCEPT !.bus = w.bus, !.panic = w.panic]
         IN  Written(WriteU8(m.bus, addr, value))

\* Cpu::read_mem_u8
ReadMemU8(m, addr) == ReadU8(m.bus, addr)

\* `self.sp -= 1`: u16 subtraction, a panic on overflow when the build checks it.
DecSp(m) ==
    IF m.panic THEN m
    ELSE IF m.cpu.sp = 0 /\ overflow_checks THEN Panicked(m)
    ELSE [m EXCEPT !.cpu.sp = (m.cpu.sp - 1) % 65536]

\* `self.sp += 1`: u16 addition, a panic on overflow when the build checks it.
IncSp(m) ==
    IF m.panic THEN m
    ELSE IF m.cpu.sp = 65535 /\ overflow_checks THEN Panicked(m)
    ELSE [m EXCEPT !.cpu.sp = (m.cpu.sp + 1) % 65536]

\* A mutant of PushStack: the low byte is written before the high byte.
PushStackLowFirst(m, value) ==
    LET Second(m3) == WriteMemU8(m3, m3.cpu.sp, Hi(value))
        First(m1) == Second(DecSp(WriteMemU8(m1, m1.cpu.sp, Lo(value))))
    IN  First(DecSp(m))

\* Cpu::push_stack
PushStack(m, value) ==
    LET hi == Hi(value)
        lo == Lo(value)
        Second(m3) == WriteMemU8(m3, m3.cpu.sp, lo)
        First(m1) == Second(DecSp(WriteMemU8(m1, m1.cpu.sp, hi)))
    IN  First(DecSp(m))

\* Cpu::pop_stack: the machine after the pop and the value returned.
PopStack(m) ==
    LET lo == ReadMemU8(m, m.cpu.sp)
        Second(m1) == [m |-> IncSp(m1), value |-> Word(ReadMemU8(m1, m1.cpu.sp), lo)]
    IN  Second(IncSp(m))

-----------------------------------------------------------------------------
(* Register file (registers.rs)                                            *)

\* Registers::af / bc / de / hl
RegAf(c) == Word(c.a, c.f)
RegBc(c) == Word(c.b, c.c)
RegDe(c) == Word(c.d, c.e)
RegHl(c) == Word(c.h, c.l)

\* A mutant of SetAf: the low nibble of F is not masked.
SetAfUnmasked(c, value) == [c EXCEPT !.a = Hi(value), !.f = Lo(value)]

\* Registers::set_af: the low nibble of F is masked off.
SetAf(c, value) == [c EXCEPT !.a = Hi(value), !.f = (value % 256) - (value % 16)]
\* Registers::set_bc / set_de / set_hl
SetBc(c, value) == [c EXCEPT !.b = Hi(value), !.c = Lo(value)]
SetDe(c, value) == [c EXCEPT !.d = Hi(value), !.e = Lo(value)]
SetHl(c, value) == [c EXCEPT !.h = Hi(value), !.l = Lo(value)]

\* Registers::get_z_flag / get_n_flag / get_h_flag / get_c_flag
GetZFlag(c) == GetBit(c.f, 7)
GetNFlag(c) == GetBit(c.f, 6)
GetHFlag(c) == GetBit(c.f, 5)
GetCFlag(c) == GetBit(c.f, 4)

\* Registers::set_*_flag / clear_*_flag, chosen by a boolean.
PutFlag(c, bit, on) == [c EXCEPT !.f = IF on THEN SetBit(c.f, bit) ELSE ClearBit(c.f, bit)]
PutZ(c, on) == PutFlag(c, 7, on)
PutN(c, on) == PutFlag(c, 6, on)
PutH(c, on) == PutFlag(c, 5, on)
PutC(c, on) == PutFlag(c, 4, on)

\* The 8-bit registers a handler can name.
Reg8 == {"A", "B", "C", "D", "E", "H", "L"}

\* self.reg.<r> for an 8-bit register name.
GetReg8(c, r) ==
    CASE r = "A" -> c.a [] r = "B" -> c.b [] r = "C" -> c.c [] r = "D" -> c.d
      [] r = "E" -> c.e [] r = "H" -> c.h [] r = "L" -> c.l

\* self.reg.<r> = value for an 8-bit register name.
SetReg8(c, r, value) ==
    CASE r = "A" -> [c EXCEPT !.a = value] [] r = "B" -> [c EXCEPT !.b = value]
      [] r = "C" -> [c EXCEPT !.c = value] [] r = "D" -> [c EXCEPT !.d = value]
      [] r = "E" -> [c EXCEPT !.e = value] [] r = "H" -> [c EXCEPT !.h = value]
      [] r = "L" -> [c EXCEPT !.l = value]

-----------------------------------------------------------------------------
(* Opcode tables (opcodes.rs)                                              *)

\* AddressingMode
ImmediateRegister(r) == [mode |-> "ImmediateRegister", reg |-> r]
AddressRegister(r) == [mode |-> "AddressRegister", reg |-> r]
ImmediateU8 == [mode |-> "ImmediateU8", reg |-> "-"]
AddressHRAM == [mode |-> "AddressHRAM", reg |-> "-"]
ImmediateI8 == [mode |-> "ImmediateI8", reg |-> "-"]
ImmediateU16 == [mode |-> "ImmediateU16", reg |-> "-"]
AddressU16 == [mode |-> "AddressU16", reg |-> "-"]
IoAdressOffset == [mode |-> "IoAdressOffset", reg |-> "-"]
NoOperand == [mode |-> "None", reg |-> "-"]

\* Opcode::generate_normal_opcode_map: <<code, bytes, t_cycles, lhs, rhs>>
NormalOpcodeRows == <<
    <<0, 1, 4, NoOperand, NoOperand>>,   \* 0x00 NOP
    <<16, 2, 4, ImmediateU8, NoOperand>>,   \* 0x10 STOP n8
    <<118, 1, 4, NoOperand, NoOperand>>,   \* 0x76 HALT
    <<243, 1, 4, NoOperand, NoOperand>>,   \* 0xf3 DI
    <<251, 1, 4, NoOperand, NoOperand>>,   \* 0xfb EI
    <<24, 2, 12, NoOperand, ImmediateI8>>,   \* 0x18 JR, e8
    <<32, 2, 8, NoOperand, ImmediateI8>>,   \* 0x20 JR NZ, e8
    <<40, 2, 8, NoOperand, ImmediateI8>>,   \* 0x28 JR Z, e8
    <<195, 3, 16, AddressU16, NoOperand>>,   \* 0xc3 JP a16
    <<200, 1, 8, NoOperand, NoOperand>>,   \* 0xc8 RET Z
    <<201, 1, 16, NoOperand, NoOperand>>,   \* 0xc9 RET
    <<205, 3, 24, AddressU16, NoOperand>>,   \* 0xcd CALL a16
    <<6, 2, 8, ImmediateRegister("B"), ImmediateU8>>,   \* 0x06 LD B, n8
    <<14, 2, 8, ImmediateRegister("C"), ImmediateU8>>,   \* 0x0e LD C, n8
    <<22, 2, 8, ImmediateRegister("D"), ImmediateU8>>,   \* 0x16 LD D, n8
    <<26, 1, 8, ImmediateRegister("A"), AddressRegister("DE")>>,   \* 0x1a LD A, [DE]
    <<30, 2, 8, ImmediateRegister("E"), ImmediateU8>>,   \* 0x1e LD E, n8
    <<34, 1, 8, AddressRegister("HL"), ImmediateRegister("A")>>,   \* 0x22 LD [HLI], A
    <<46, 2, 8, ImmediateRegister("L"), ImmediateU8>>,   \* 0x2e LD L, n8
    <<50, 1, 8, AddressRegister("HL"), ImmediateRegister("A")>>,   \* 0x32 LD [HL-], A
    <<62, 2, 8, ImmediateRegister("A"), ImmediateU8>>,   \* 0x3e LD A, n8
    <<79, 1, 8, ImmediateRegister("C"), ImmediateRegister("A")>>,   \* 0x4f LD C, A
    <<87, 1, 4, ImmediateRegister("D"), ImmediateRegister("A")>>,   \* 0x57 LD D, A
    <<103, 1, 4, ImmediateRegister("H"), ImmediateRegister("A")>>,   \* 0x67 LD H, A
    <<120, 1, 4, ImmediateRegister("A"), ImmediateRegister("B")>>,   \* 0x78 LD A, B
    <<123, 1, 4, ImmediateRegister("A"), ImmediateRegister("E")>>,   \* 0x7b LD A, E
    <<124, 1, 4, ImmediateRegister("A"), ImmediateRegister("H")>>,   \* 0x7c LD A, H
    <<125, 1, 4, ImmediateRegister("A"), ImmediateRegister("L")>>,   \* 0x7d LD A, L
    <<224, 2, 12, AddressHRAM, ImmediateRegister("A")>>,   \* 0xe0 LDH [a8], A
    <<226, 1, 8, IoAdressOffset, ImmediateRegister("A")>>,   \* 0xe2 LD [C], A
    <<234, 3, 16, AddressU16, ImmediateRegister("A")>>,   \* 0xea LD [a16], A
    <<240, 2, 12, ImmediateRegister("A"), AddressHRAM>>,   \* 0xf0 LDH A, [a8]
    <<119, 1, 8, AddressRegister("HL"), ImmediateRegister("A")>>,   \* 0x77 LD [HL], A
    <<1, 3, 12, ImmediateRegister("BC"), ImmediateU16>>,   \* 0x01 LD BC, n16
    <<17, 3, 12, ImmediateRegister("DE"), ImmediateU16>>,   \* 0x11 LD DE, n16
    <<33, 3, 12, ImmediateRegister("HL"), ImmediateU16>>,   \* 0x21 LD HL, n16
    <<49, 3, 12, ImmediateRegister("SP"), ImmediateU16>>,   \* 0x31 LD SP, n16
    <<193, 1, 16, ImmediateRegister("BC"), NoOperand>>,   \* 0xc1 POP BC
    <<197, 1, 16, ImmediateRegister("BC"), NoOperand>>,   \* 0xc5 PUSH BC
    <<4, 1, 4, ImmediateRegister("B"), NoOperand>>,   \* 0x04 INC B
    <<5, 1, 4, ImmediateRegister("B"), NoOperand>>,   \* 0x05 DEC B
    <<12, 1, 4, ImmediateRegister("C"), NoOperand>>,   \* 0x0c INC C
    <<13, 1, 4, ImmediateRegister("C"), NoOperand>>,   \* 0x0d DEC C
    <<19, 1, 8, ImmediateRegister("DE"), NoOperand>>,   \* 0x13 INC DE
    <<21, 1, 4, ImmediateRegister("D"), NoOperand>>,   \* 0x15 DEC D
    <<29, 1, 4, ImmediateRegister("E"), NoOperand>>,   \* 0x1d DEC E
    <<35, 1, 8, ImmediateRegister("HL"), NoOperand>>,   \* 0x23 INC HL
    <<36, 1, 4, ImmediateRegister("H"), NoOperand>>,   \* 0x24 INC H
    <<61, 1, 4, ImmediateRegister("A"), NoOperand>>,   \* 0x3d DEC A
    <<134, 1, 8, ImmediateRegister("A"), AddressRegister("HL")>>,   \* 0x86 ADD A, [HL]
    <<144, 1, 4, ImmediateRegister("A"), ImmediateRegister("B")>>,   \* 0x90 SUB A, B
    <<168, 1, 4, ImmediateRegister("A"), ImmediateRegister("B")>>,   \* 0xa8 XOR A, B
    <<169, 1, 4, ImmediateRegister("A"), ImmediateRegister("C")>>,   \* 0xa9 XOR A, C
    <<170, 1, 4, ImmediateRegister("A"), ImmediateRegister("D")>>,   \* 0xaa XOR A, D
    <<171, 1, 4, ImmediateRegister("A"), ImmediateRegister("E")>>,   \* 0xab XOR A, E
    <<172, 1, 4, ImmediateRegister("A"), ImmediateRegister("H")>>,   \* 0xac XOR A, H
    <<173, 1, 4, ImmediateRegister("A"), ImmediateRegister("L")>>,   \* 0xad XOR A, L
    <<174, 1, 8, ImmediateRegister("A"), AddressRegister("HL")>>,   \* 0xae XOR A, [HL]
    <<175, 1, 4, ImmediateRegister("A"), ImmediateRegister("A")>>,   \* 0xaf XOR A, A
    <<176, 1, 4, ImmediateRegister("A"), ImmediateRegister("B")>>,   \* 0xb0 OR A, B
    <<177, 1, 4, ImmediateRegister("A"), ImmediateRegister("C")>>,   \* 0xb1 OR A, C
    <<178, 1, 4, ImmediateRegister("A"), ImmediateRegister("D")>>,   \* 0xb2 OR A, D
    <<179, 1, 4, ImmediateRegister("A"), ImmediateRegister("E")>>,   \* 0xb3 OR A, E
    <<180, 1, 4, ImmediateRegister("A"), ImmediateRegister("H")>>,   \* 0xb4 OR A, H
    <<181, 1, 4, ImmediateRegister("A"), ImmediateRegister("L")>>,   \* 0xb5 OR A, L
    <<182, 1, 8, ImmediateRegister("A"), AddressRegister("HL")>>,   \* 0xb6 OR A, [HL]
    <<183, 1, 4, ImmediateRegister("A"), ImmediateRegister("A")>>,   \* 0xb7 OR A, A
    <<184, 1, 4, ImmediateRegister("A"), ImmediateRegister("B")>>,   \* 0xb8 CP A, B
    <<185, 1, 4, ImmediateRegister("A"), ImmediateRegister("C")>>,   \* 0xb9 CP A, C
    <<186, 1, 4, ImmediateRegister("A"), ImmediateRegister("D")>>,   \* 0xba CP A, D
    <<187, 1, 4, ImmediateRegister("A"), ImmediateRegister("E")>>,   \* 0xbb CP A, E
    <<188, 1, 4, ImmediateRegister("A"), ImmediateRegister("H")>>,   \* 0xbc CP A, H
    <<189, 1, 4, ImmediateRegister("A"), ImmediateRegister("L")>>,   \* 0xbd CP A, L
    <<190, 1, 8, ImmediateRegister("A"), AddressRegister("HL")>>,   \* 0xbe CP A, [HL]
    <<191, 1, 4, ImmediateRegister("A"), ImmediateRegister("A")>>,   \* 0xbf CP A, A
    <<254, 2, 8, ImmediateRegister("A"), ImmediateU8>>,   \* 0xfe CP A, n8
    <<11, 1, 8, ImmediateRegister("BC"), NoOperand>>,   \* 0x0b DEC BC
    <<23, 1, 4, ImmediateRegister("A"), NoOperand>>    \* 0x17 RLA
>>

\* Opcode::generate_prefixed_opcode_map
PrefixedOpcodeRows == <<
    <<17, 2, 8, ImmediateRegister("C"), NoOperand>>,   \* 0x11 RL C
    <<190, 2, 16, NoOperand, AddressRegister("HL")>>,   \* 0xbe RES 7, [HL]
    <<124, 2, 8, NoOperand, ImmediateRegister("H")>>,   \* 0x7c BIT 7, H
    <<126, 2, 12, NoOperand, AddressRegister("HL")>>    \* 0x7e BIT 7, [HL]
>>

\* Rows of the complete instruction table that the table above does not hold:
\* RLCA, INC [HL], DEC [HL], POP AF, the conditional JP and CALL forms, ADC,
\* SBC, DAA and RRA, all of which the dispatcher has arms for.
MissingNormalOpcodeRows == <<
    <<136, 1, 4, ImmediateRegister("A"), ImmediateRegister("B")>>,  \* 0x88 ADC A, B
    <<206, 2, 8, ImmediateRegister("A"), ImmediateU8>>,  \* 0xce ADC A, n8
    <<152, 1, 4, ImmediateRegister("A"), ImmediateRegister("B")>>,  \* 0x98 SBC A, B
    <<222, 2, 8, ImmediateRegister("A"), ImmediateU8>>,  \* 0xde SBC A, n8
    <<39, 1, 4, NoOperand, NoOperand>>,                  \* 0x27 DAA
    <<31, 1, 4, ImmediateRegister("A"), NoOperand>>,     \* 0x1f RRA
    <<194, 3, 12, NoOperand, AddressU16>>,               \* 0xc2 JP NZ, a16
    <<210, 3, 12, NoOperand, AddressU16>>,               \* 0xd2 JP NC, a16
    <<196, 3, 12, NoOperand, AddressU16>>,               \* 0xc4 CALL NZ, a16
    <<212, 3, 12, NoOperand, AddressU16>>,               \* 0xd4 CALL NC, a16
    <<7, 1, 4, ImmediateRegister("A"), NoOperand>>,      \* 0x07 RLCA
    <<241, 1, 12, ImmediateRegister("AF"), NoOperand>>,  \* 0xf1 POP AF
    <<52, 1, 12, AddressRegister("HL"), NoOperand>>,     \* 0x34 INC [HL]
    <<53, 1, 12, AddressRegister("HL"), NoOperand>>      \* 0x35 DEC [HL]
>>

\* Rows of the complete prefixed table that the table above does not hold: the
\* other rotates through carry and BIT 0..6 on H and [HL], all of which the
\* prefixed dispatcher has arms for.
MissingPrefixedOpcodeRows == <<
    <<22, 2, 16, AddressRegister("HL"), NoOperand>>,     \* 0x16 RL [HL]
    <<25, 2, 8, ImmediateRegister("C"), NoOperand>>,     \* 0x19 RR C
    <<30, 2, 16, AddressRegister("HL"), NoOperand>>,     \* 0x1e RR [HL]
    <<68, 2, 8, NoOperand, ImmediateRegister("H")>>,     \* 0x44 BIT 0, H
    <<70, 2, 12, NoOperand, AddressRegister("HL")>>,     \* 0x46 BIT 0, [HL]
    <<76, 2, 8, NoOperand, ImmediateRegister("H")>>,     \* 0x4c BIT 1, H
    <<78, 2, 12, NoOperand, AddressRegister("HL")>>,     \* 0x4e BIT 1, [HL]
    <<84, 2, 8, NoOperand, ImmediateRegister("H")>>,     \* 0x54 BIT 2, H
    <<86, 2, 12, NoOperand, AddressRegister("HL")>>,     \* 0x56 BIT 2, [HL]
    <<92, 2, 8, NoOperand, ImmediateRegister("H")>>,     \* 0x5c BIT 3, H
    <<94, 2, 12, NoOperand, AddressRegister("HL")>>,     \* 0x5e BIT 3, [HL]
    <<100, 2, 8, NoOperand, ImmediateRegister("H")>>,     \* 0x64 BIT 4, H
    <<102, 2, 12, NoOperand, AddressRegister("HL")>>,     \* 0x66 BIT 4, [HL]
    <<108, 2, 8, NoOperand, ImmediateRegister("H")>>,     \* 0x6c BIT 5, H
    <<110, 2, 12, NoOperand, AddressRegister("HL")>>,     \* 0x6e BIT 5, [HL]
    <<116, 2, 8, NoOperand, ImmediateRegister("H")>>,     \* 0x74 BIT 6, H
    <<118, 2, 12, NoOperand, AddressRegister("HL")>>     \* 0x76 BIT 6, [HL]
>>

\* HashMap::insert of each row in turn: a later row replaces an earlier one.
RowsToMap(rows) ==
    [code \in {rows[i][1] : i \in 1..Len(rows)} |->
        LET i == CHOOSE j \in 1..Len(rows) :
                    /\ rows[j][1] = code
                    /\ \A k \in (j + 1)..Len(rows) : rows[k][1] # code
        IN  [code |-> code, bytes |-> rows[i][2], t_cycles |-> rows[i][3],
             lhs |-> rows[i][4], rhs |-> rows[i][5]]]

\* Cpu::normal_opcodes
NormalOpcodes == RowsToMap(MissingNormalOpcodeRows \o NormalOpcodeRows)

\* Cpu::prefixed_opcodes
PrefixedOpcodes == RowsToMap(MissingPrefixedOpcodeRows \o PrefixedOpcodeRows)

-----------------------------------------------------------------------------
(* Operand resolution and arithmetic helpers (cpu/mod.rs)                  *)

\* DataType
Data(t, v) == [t |-> t, v |-> v]

\* `as i8`
AsI8(byte) == IF byte >= 128 THEN byte - 256 ELSE byte

\* The result r of Cpu::read_mem_u16 wrapped in a DataType; the read can panic.
ReadWordAs(r, t) == IF r.panic THEN Data("Panic", 0) ELSE Data(t, r.value)

\* Cpu::get_data
GetData(m, am) ==
    LET c == m.cpu
        next == (c.pc + 1) % 65536
        Resolve(n8, n16) ==
            CASE am.mode = "ImmediateRegister" ->
                    (CASE am.reg \in Reg8 -> Data("ValueU8", GetReg8(c, am.reg))
                       [] am.reg = "AF" -> Data("ValueU16", RegAf(c))
                       [] am.reg = "BC" -> Data("ValueU16", RegBc(c))
                       [] am.reg = "DE" -> Data("ValueU16", RegDe(c))
                       [] am.reg = "HL" -> Data("ValueU16", RegHl(c))
                       [] am.reg = "SP" -> Data("ValueU16", c.sp))
              [] am.mode = "AddressRegister" ->
                    (CASE am.reg = "BC" -> Data("Address", RegBc(c))
                       [] am.reg = "DE" -> Data("Address", RegDe(c))
                       [] am.reg = "HL" -> Data("Address", RegHl(c))
                       [] OTHER -> Data("Panic", 0))
              [] am.mode = "ImmediateU8" -> Data("ValueU8", n8)
              [] am.mode = "AddressHRAM" -> Data("Address", 65280 + n8)
              [] am.mode = "ImmediateI8" -> Data("ValueI8", AsI8(n8))
              [] am.mode = "ImmediateU16" -> ReadWordAs(n16, "ValueU16")
              [] am.mode = "AddressU16" -> ReadWordAs(n16, "Address")
              [] am.mode = "IoAdressOffset" -> Data("Address", 65280 + c.c)
              [] am.mode = "None" -> Data("None", 0)
    IN  Resolve(ReadMemU8(m, next), ReadU16(m.bus, next))

\* The `match self.get_data(..) { ValueU8(val) => val, Address(addr) =>
\* self.read_mem_u8(addr), _ => panic!() }` that opens the 8-bit handlers.
ByteOperand(m, am) ==
    LET With(d) ==
            CASE d.t = "ValueU8" -> [ok |-> TRUE, v |-> d.v]
              [] d.t = "Address" -> [ok |-> TRUE, v |-> ReadMemU8(m, d.v)]
              [] OTHER -> [ok |-> FALSE, v |-> 0]
    IN  With(GetData(m, am))

\* The write-back `match addressing_mode` of rotate, shift and swap: an 8-bit
\* register, or the address of any AddressRegister; anything else panics.
StoreResult(m, am, value) ==
    IF am.mode = "ImmediateRegister" /\ am.reg \in Reg8
    THEN [m EXCEPT !.cpu = SetReg8(m.cpu, am.reg, value)]
    ELSE IF am.mode = "AddressRegister"
    THEN LET To(d) == IF d.t = "Address" THEN WriteMemU8(m, d.v, value) ELSE Panicked(m)
         IN  To(GetData(m, am))
    ELSE Panicked(m)

\* The write-back of increment_u8, decrement_u8, set_bit and reset_bit: an 8-bit
\* register or [HL]; anything else panics.
StoreResultHl(m, am, value) ==
    IF am.mode = "ImmediateRegister" /\ am.reg \in Reg8
    THEN [m EXCEPT !.cpu = SetReg8(m.cpu, am.reg, value)]
    ELSE IF am.mode = "AddressRegister" /\ am.reg = "HL"
    THEN WriteMemU8(m, RegHl(m.cpu), value)
    ELSE Panicked(m)

\* A mutant of CarryTrackAddU8: the half carry is taken from bit 3 of the sum.
CarryTrackAddU8Bit3(lhs, rhs) ==
    [value |-> (lhs + rhs) % 256,
     half |-> (((lhs + rhs) % 256) \div 8) % 2 = 1,
     full |-> lhs + rhs > 255]

\* Cpu::carry_track_add_u8
CarryTrackAddU8(lhs, rhs) ==
    [value |-> (lhs + rhs) % 256,
     half |-> (((lhs % 16) + (rhs % 16)) \div 16) % 2 = 1,
     full |-> lhs + rhs > 255]

\* Cpu::carry_track_sub_u8
CarryTrackSubU8(lhs, rhs) ==
    [value |-> (lhs - rhs) % 256,
     half |-> (lhs % 16) < (rhs % 16),
     full |-> lhs < rhs]

\* Cpu::increment_u8
IncrementU8(m, am) ==
    LET With(o) ==
            IF ~o.ok THEN Panicked(m)
            ELSE LET r == CarryTrackAddU8(o.v, 1)
                     Flags(m1) ==
                         IF m1.panic THEN m1
                         ELSE [m1 EXCEPT !.cpu =
                                  PutH(PutN(PutZ(m1.cpu, r.value = 0), FALSE), r.half)]
                 IN  Flags(StoreResultHl(m, am, r.value))
    IN  With(ByteOperand(m, am))

\* Cpu::increment_u16
IncrementU16(m, am) ==
    LET With(d) ==
            IF d.t # "ValueU16" THEN Panicked(m)
            ELSE LET sum == (d.v + 1) % 65536 IN
                 CASE am.reg = "BC" -> [m EXCEPT !.cpu = SetBc(m.cpu, sum)]
                   [] am.reg = "DE" -> [m EXCEPT !.cpu = SetDe(m.cpu, sum)]
                   [] am.reg = "HL" -> [m EXCEPT !.cpu = SetHl(m.cpu, sum)]
                   [] am.reg = "SP" -> [m EXCEPT !.cpu.sp = sum]
                   [] OTHER -> Panicked(m)
    IN  With(GetData(m, am))

\* Cpu::decrement_u8
DecrementU8(m, am) ==
    LET With(o) ==
            IF ~o.ok THEN Panicked(m)
            ELSE LET r == CarryTrackSubU8(o.v, 1)
                     Flags(m1) ==
                         IF m1.panic THEN m1
                         ELSE [m1 EXCEPT !.cpu =
                                  PutH(PutN(PutZ(m1.cpu, r.value = 0), TRUE), r.half)]
                 IN  Flags(StoreResultHl(m, am, r.value))
    IN  With(ByteOperand(m, am))

\* Cpu::decrement_u16: `byte -= 1` panics at 0 when the build checks overflow.
DecrementU16(m, am) ==
    LET With(d) ==
            IF d.t # "ValueU16" THEN Panicked(m)
            ELSE IF d.v = 0 /\ overflow_checks THEN Panicked(m)
            ELSE LET byte == (d.v - 1) % 65536 IN
                 CASE am.mode = "ImmediateRegister" /\ am.reg = "BC" -> [m EXCEPT !.cpu = SetBc(m.cpu, byte)]
                   [] am.mode = "ImmediateRegister" /\ am.reg = "DE" -> [m EXCEPT !.cpu = SetDe(m.cpu, byte)]
                   [] am.mode = "ImmediateRegister" /\ am.reg = "HL" -> [m EXCEPT !.cpu = SetHl(m.cpu, byte)]
                   [] am.mode = "ImmediateRegister" /\ am.reg = "SP" -> [m EXCEPT !.cpu.sp = byte]
                   [] OTHER -> Panicked(m)
    IN  With(GetData(m, am))

\* The `self.reg.set_hl(self.reg.hl() +/- 1)` of the HL+ / HL- loads: u16
\* arithmetic that panics on overflow when the build checks it.
StepHl(m, delta) ==
    IF m.panic THEN m
    ELSE LET v == RegHl(m.cpu) + delta IN
         IF (v < 0 \/ v > 65535) /\ overflow_checks THEN Panicked(m)
         ELSE [m EXCEPT !.cpu = SetHl(m.cpu, v % 65536)]

\* The store arms of load_or_store_value: ValueU8 to addr, ValueU16 to addr and
\* addr + 1 (u16 addition), anything else panics unless wide is refused.
StoreData(m, addr, data, wide) ==
    CASE data.t = "ValueU8" -> WriteMemU8(m, addr, data.v)
      [] data.t = "ValueU16" /\ wide ->
            LET High(m1) ==
                    IF m1.panic THEN m1
                    ELSE IF addr = 65535 /\ overflow_checks THEN Panicked(m1)
                    ELSE WriteMemU8(m1, (addr + 1) % 65536, Hi(data.v))
            IN  High(WriteMemU8(m, addr, Lo(data.v)))
      [] OTHER -> Panicked(m)

\* Cpu::load_or_store_value; modifier is "None", "IncHL" or "DecHL".
LoadOrStoreValue(m, lhs, rhs, modifier) ==
    LET Store(a, data, wide) ==
            IF a.t # "Address" \/ data.t = "Panic" THEN Panicked(m)
            ELSE StoreData(m, a.v, data, wide)
        Move(data) ==
          CASE lhs.mode = "ImmediateRegister" ->
                 (CASE data.t = "ValueU8" ->
                         IF lhs.reg \in Reg8
                         THEN [m EXCEPT !.cpu = SetReg8(m.cpu, lhs.reg, data.v)]
                         ELSE Panicked(m)
                    [] data.t = "ValueU16" ->
                         (CASE lhs.reg = "BC" -> [m EXCEPT !.cpu = SetBc(m.cpu, data.v)]
                            [] lhs.reg = "DE" -> [m EXCEPT !.cpu = SetDe(m.cpu, data.v)]
                            [] lhs.reg = "HL" -> [m EXCEPT !.cpu = SetHl(m.cpu, data.v)]
                            [] lhs.reg = "SP" -> [m EXCEPT !.cpu.sp = data.v]
                            [] OTHER -> Panicked(m))
                    [] data.t = "Address" ->
                         IF lhs.reg \in Reg8
                         THEN [m EXCEPT !.cpu = SetReg8(m.cpu, lhs.reg, ReadMemU8(m, data.v))]
                         ELSE Panicked(m)
                    [] OTHER -> Panicked(m))
            [] lhs.mode = "AddressRegister" -> Store(GetData(m, lhs), data, FALSE)
            [] lhs.mode \in {"AddressU16", "IoAdressOffset", "AddressHRAM"} ->
                 Store(GetData(m, lhs), data, TRUE)
            [] OTHER -> Panicked(m)
        Modify(m1) ==
          CASE modifier = "DecHL" -> StepHl(m1, -1)
            [] modifier = "IncHL" -> StepHl(m1, 1)
            [] OTHER -> m1
    IN  Modify(Move(GetData(m, rhs)))

\* JumpCondition tested against the flags; "None" is the unconditional form.
ConditionHolds(c, condition) ==
    CASE condition = "Z" -> GetZFlag(c) # 0
      [] condition = "NZ" -> GetZFlag(c) = 0
      [] condition = "C" -> GetCFlag(c) # 0
      [] condition = "NC" -> GetCFlag(c) = 0
      [] condition = "None" -> TRUE

\* Cpu::rel_jump: the machine and the extra cycles returned.
RelJump(m, am, condition) ==
    LET With(d) ==
            IF d.t # "ValueI8" THEN [m |-> Panicked(m), extra |-> 0]
            ELSE [m |-> IF ConditionHolds(m.cpu, condition)
                        THEN [m EXCEPT !.cpu.pc = (m.cpu.pc + d.v) % 65536]
                        ELSE m,
                  extra |-> IF condition = "None" THEN 0 ELSE 4]
    IN  With(GetData(m, am))

\* Cpu::abs_jump: only NZ, NC and the unconditional form are matched.
AbsJump(m, am, condition) ==
    IF condition \notin {"NZ", "NC", "None"} THEN [m |-> Panicked(m), extra |-> 0]
    ELSE IF ~ConditionHolds(m.cpu, condition) THEN [m |-> m, extra |-> 0]
    ELSE LET To(d) ==
                 IF d.t # "Address" THEN [m |-> Panicked(m), extra |-> 0]
                 ELSE [m |-> [m EXCEPT !.cpu.pc = d.v],
                       extra |-> IF condition = "None" THEN 0 ELSE 4]
         IN  To(GetData(m, am))

\* Cpu::call
Call(m, am, condition) ==
    IF condition \notin {"NZ", "NC", "None"} THEN [m |-> Panicked(m), extra |-> 0]
    ELSE IF ~ConditionHolds(m.cpu, condition) THEN [m |-> m, extra |-> 0]
    ELSE LET Enter(d, m1) ==
                 IF d.t # "Address" THEN [m |-> Panicked(m), extra |-> 0]
                 ELSE [m |-> IF m1.panic THEN m1 ELSE [m1 EXCEPT !.cpu.pc = d.v],
                       extra |-> IF condition = "None" THEN 0 ELSE 12]
         IN  Enter(GetData(m, am), PushStack(m, (m.cpu.pc + 3) % 65536))

\* Cpu::ret
Ret(m, condition, set_ime) ==
    LET Return(p) == IF p.m.panic THEN p.m ELSE [p.m EXCEPT !.cpu.pc = p.value]
        Enable(m1) == IF set_ime THEN WriteMemU8(m1, 65535, 255) ELSE m1
    IN
    IF condition = "None"
    THEN [m |-> Enable(Return(PopStack(m))), extra |-> 0]
    ELSE IF ConditionHolds(m.cpu, condition)
    THEN [m |-> Return(PopStack(m)), extra |-> 12]
    ELSE [m |-> m, extra |-> 0]

\* Cpu::push_stack_instr
PushStackInstr(m, am) ==
    LET With(d) ==
            IF d.t # "ValueU16" THEN Panicked(m) ELSE PushStack(m, d.v)
    IN  With(GetData(m, am))

\* Cpu::pop_stack_instr
PopStackInstr(m, am) ==
    LET With(p) ==
            IF p.m.panic THEN p.m
            ELSE IF am.mode # "ImmediateRegister" THEN Panicked(p.m)
            ELSE CASE am.reg = "AF" -> [p.m EXCEPT !.cpu = SetAf(p.m.cpu, p.value)]
                   [] am.reg = "BC" -> [p.m EXCEPT !.cpu = SetBc(p.m.cpu, p.value)]
                   [] am.reg = "DE" -> [p.m EXCEPT !.cpu = SetDe(p.m.cpu, p.value)]
                   [] am.reg = "HL" -> [p.m EXCEPT !.cpu = SetHl(p.m.cpu, p.value)]
                   [] OTHER -> Panicked(p.m)
    IN  With(PopStack(m))

\* Cpu::shift
Shift(m, am, direction, logical) ==
    LET With(o) ==
            IF ~o.ok THEN Panicked(m)
            ELSE LET value == o.v
                     new_val == IF direction = "Left" THEN (value * 2) % 256
                                ELSE IF logical THEN value \div 2
                                ELSE (value \div 2) + GetBit(value, 7) * 128
                     shifted_out_bit == IF direction = "Left" THEN GetBit(value, 7)
                                        ELSE GetBit(value, 0)
                     flagged == [m EXCEPT !.cpu =
                                    PutC(PutH(PutN(PutZ(m.cpu, new_val = 0), FALSE), FALSE),
                                         shifted_out_bit = 1)]
                 IN  StoreResult(flagged, am, new_val)
    IN  With(ByteOperand(m, am))

\* The body of Cpu::rotate.
RotateCore(m, am, direction, update_z, through_carry) ==
    LET With(o) ==
            IF ~o.ok THEN Panicked(m)
            ELSE LET data == o.v
                     shifted_out_bit == IF direction = "Left" THEN GetBit(data, 7)
                                        ELSE GetBit(data, 0)
                     carry_in == IF through_carry THEN GetCFlag(m.cpu) ELSE shifted_out_bit
                     new_val == IF direction = "Left" THEN ((data * 2) % 256) + carry_in
                                ELSE (data \div 2) + carry_in * 128
                     flagged == [m EXCEPT !.cpu =
                                    PutC(PutH(PutN(PutZ(m.cpu, update_z /\ new_val = 0), FALSE), FALSE),
                                         shifted_out_bit = 1)]
                 IN  StoreResult(flagged, am, new_val)
    IN  With(ByteOperand(m, am))

\* A mutant of Rotate: every rotate goes through the carry flag.
RotateAlwaysThroughCarry(m, am, direction, update_z, through_carry) ==
    RotateCore(m, am, direction, update_z, TRUE)

\* A mutant of Rotate: the evicted bit always re-enters at the other end.
RotateNeverThroughCarry(m, am, direction, update_z, through_carry) ==
    RotateCore(m, am, direction, update_z, FALSE)

\* Cpu::rotate
Rotate(m, am, direction, update_z, through_carry) ==
    RotateCore(m, am, direction, update_z, through_carry)

\* Cpu::swap
Swap(m, am) ==
    LET With(o) ==
            IF ~o.ok THEN Panicked(m)
            ELSE LET new_val == (o.v % 16) * 16 + (o.v \div 16)
                     flagged == [m EXCEPT !.cpu =
                                    PutC(PutH(PutN(PutZ(m.cpu, new_val = 0), FALSE), FALSE), FALSE)]
                 IN  StoreResult(flagged, am, new_val)
    IN  With(ByteOperand(m, am))

\* Cpu::set_u8_add_registers
SetU8AddRegisters(c, sum, half_carry, full_carry) ==
    [PutC(PutH(PutN(PutZ(c, sum = 0), FALSE), half_carry), full_carry) EXCEPT !.a = sum]

\* Cpu::add_a_u8
AddAU8(m, rhs) ==
    LET With(o) ==
            IF ~o.ok THEN Panicked(m)
            ELSE LET r == CarryTrackAddU8(m.cpu.a, o.v) IN
                 [m EXCEPT !.cpu = SetU8AddRegisters(m.cpu, r.value, r.half, r.full)]
    IN  With(ByteOperand(m, rhs))

\* Cpu::add_hl_u16
AddHlU16(m, rhs) ==
    LET With(d) ==
            IF d.t # "ValueU16" THEN Panicked(m)
            ELSE LET hl == RegHl(m.cpu)
                     half_carry == (hl % 4096) + (d.v % 4096) >= 4096
                     carry == hl + d.v > 65535
                 IN  [m EXCEPT !.cpu =
                         PutC(PutH(PutN(SetHl(m.cpu, (hl + d.v) % 65536), FALSE), half_carry), carry)]
    IN  With(GetData(m, rhs))

\* Cpu::add_sp_e8
AddSpE8(m, rhs) ==
    LET With(d) ==
            IF d.t # "ValueI8" THEN Panicked(m)
            ELSE LET value == d.v
                     before == m.cpu.sp
                     sp == (before + value) % 65536
                     full_carry == IF value >= 0 THEN (before % 256) + value > 255
                                   ELSE (sp % 256) < (before % 256)
                     half_carry == IF value >= 0 THEN (before % 16) + (value % 16) > 15
                                   ELSE (sp % 16) < (before % 16)
                 IN  [m EXCEPT !.cpu =
                         PutH(PutC(PutN(PutZ([m.cpu EXCEPT !.sp = sp], FALSE), FALSE), full_carry),
                              half_carry)]
    IN  With(GetData(m, rhs))

\* Cpu::ld_hl_sp_e8
LdHlSpE8(m, rhs) ==
    LET With(d) ==
            IF d.t # "ValueI8" THEN Panicked(m)
            ELSE LET value == d.v
                     sp == m.cpu.sp
                     full_carry == (sp % 256) + (value % 256) > 255
                     half_carry == (sp % 16) + (value % 16) > 15
                 IN  [m EXCEPT !.cpu =
                         PutH(PutC(PutN(PutZ(SetHl(m.cpu, (sp + value) % 65536), FALSE), FALSE),
                                   full_carry), half_carry)]
    IN  With(GetData(m, rhs))

\* A mutant of Adc: the carries of the second addition are dropped.
AdcFirstCarriesOnly(m, rhs) ==
    LET With(o) ==
            IF ~o.ok THEN Panicked(m)
            ELSE LET r1 == CarryTrackAddU8(m.cpu.a, o.v)
                     r2 == CarryTrackAddU8(r1.value, GetCFlag(m.cpu))
                 IN  [m EXCEPT !.cpu = SetU8AddRegisters(m.cpu, r2.value, r1.half, r1.full)]
    IN  With(ByteOperand(m, rhs))

\* Cpu::adc
Adc(m, rhs) ==
    LET With(o) ==
            IF ~o.ok THEN Panicked(m)
            ELSE LET r1 == CarryTrackAddU8(m.cpu.a, o.v)
                     r2 == CarryTrackAddU8(r1.value, GetCFlag(m.cpu))
                 IN  [m EXCEPT !.cpu = SetU8AddRegisters(m.cpu, r2.value, r1.half \/ r2.half,
                                                         r1.full \/ r2.full)]
    IN  With(ByteOperand(m, rhs))

\* The body of Cpu::sub_a.
SubACore(m, rhs, store_result) ==
    LET With(o) ==
            IF ~o.ok THEN Panicked(m)
            ELSE LET r == CarryTrackSubU8(m.cpu.a, o.v)
                     flagged == PutC(PutH(PutN(PutZ(m.cpu, r.value = 0), TRUE), r.half), r.full)
                 IN  [m EXCEPT !.cpu = IF store_result THEN [flagged EXCEPT !.a = r.value]
                                       ELSE flagged]
    IN  With(ByteOperand(m, rhs))

\* A mutant of SubA: the difference is written to A whatever store_result says.
SubAAlwaysStores(m, rhs, store_result) == SubACore(m, rhs, TRUE)

\* Cpu::sub_a
SubA(m, rhs, store_result) == SubACore(m, rhs, store_result)

\* Cpu::sbc
Sbc(m, rhs) ==
    LET With(o) ==
            IF ~o.ok THEN Panicked(m)
            ELSE LET r1 == CarryTrackSubU8(m.cpu.a, o.v)
                     r2 == CarryTrackSubU8(r1.value, GetCFlag(m.cpu))
                 IN  [m EXCEPT !.cpu =
                         [PutC(PutH(PutN(PutZ(m.cpu, r2.value = 0), TRUE), r1.half \/ r2.half),
                               r1.full \/ r2.full) EXCEPT !.a = r2.value]]
    IN  With(ByteOperand(m, rhs))

\* Cpu::and
And(m, rhs) ==
    LET With(o) ==
            IF ~o.ok THEN Panicked(m)
            ELSE LET r == AndBits(m.cpu.a, o.v, 8) IN
                 [m EXCEPT !.cpu = [PutC(PutH(PutN(PutZ(m.cpu, r = 0), FALSE), TRUE), FALSE)
                                       EXCEPT !.a = r]]
    IN  With(ByteOperand(m, rhs))

\* Cpu::xor_with_a
XorWithA(m, rhs) ==
    LET With(o) ==
            IF ~o.ok THEN Panicked(m)
            ELSE LET r == XorBits(m.cpu.a, o.v, 8) IN
                 [m EXCEPT !.cpu = PutC(PutH(PutN(PutZ([m.cpu EXCEPT !.a = r], r = 0), FALSE), FALSE),
                                        FALSE)]
    IN  With(ByteOperand(m, rhs))

\* Cpu::or_with_a
OrWithA(m, rhs) ==
    LET With(o) ==
            IF ~o.ok THEN Panicked(m)
            ELSE LET r == OrBits(m.cpu.a, o.v, 8) IN
                 [m EXCEPT !.cpu = PutC(PutH(PutN(PutZ([m.cpu EXCEPT !.a = r], r = 0), FALSE), FALSE),
                                        FALSE)]
    IN  With(ByteOperand(m, rhs))

\* A mutant of CheckBit: the bit tested is always bit 7.
CheckBitSeven(m, bit, am) ==
    LET With(o) ==
            IF ~o.ok THEN Panicked(m)
            ELSE [m EXCEPT !.cpu = PutH(PutN(PutZ(m.cpu, GetBit(o.v, 7) = 0), FALSE), TRUE)]
    IN  With(ByteOperand(m, am))

\* Cpu::check_bit
CheckBit(m, bit, am) ==
    LET With(o) ==
            IF ~o.ok THEN Panicked(m)
            ELSE [m EXCEPT !.cpu = PutH(PutN(PutZ(m.cpu, GetBit(o.v, bit) = 0), FALSE), TRUE)]
    IN  With(ByteOperand(m, am))

\* Cpu::set_bit
SetBitInstr(m, bit, am) ==
    LET With(o) ==
            IF ~o.ok THEN Panicked(m) ELSE StoreResultHl(m, am, SetBit(o.v, bit))
    IN  With(ByteOperand(m, am))

\* Cpu::reset_bit
ResetBit(m, bit, am) ==
    LET With(o) ==
            IF ~o.ok THEN Panicked(m) ELSE StoreResultHl(m, am, ClearBit(o.v, bit))
    IN  With(ByteOperand(m, am))

\* A mutant of Daa: the correction after an addition is applied whatever N.
DaaIgnoresN(m) ==
    LET c == m.cpu
        hi == IF GetCFlag(c) = 1 \/ c.a > 153
              THEN PutC([c EXCEPT !.a = (c.a + 96) % 256], TRUE)
              ELSE c
        c1 == IF GetHFlag(hi) = 1 \/ (hi.a % 16) > 9
              THEN [hi EXCEPT !.a = (hi.a + 6) % 256]
              ELSE hi
    IN  [m EXCEPT !.cpu = PutH(PutZ(c1, c1.a = 0), FALSE)]

\* Cpu::daa
Daa(m) ==
    LET c == m.cpu
        c1 == IF GetNFlag(c) = 0
              THEN LET hi == IF GetCFlag(c) = 1 \/ c.a > 153
                             THEN PutC([c EXCEPT !.a = (c.a + 96) % 256], TRUE)
                             ELSE c
                   IN  IF GetHFlag(hi) = 1 \/ (hi.a % 16) > 9
                       THEN [hi EXCEPT !.a = (hi.a + 6) % 256]
                       ELSE hi
              ELSE LET hi == IF GetCFlag(c) = 1 THEN [c EXCEPT !.a = (c.a - 96) % 256] ELSE c
                   IN  IF GetHFlag(hi) = 1 THEN [hi EXCEPT !.a = (hi.a - 6) % 256] ELSE hi
    IN  [m EXCEPT !.cpu = PutH(PutZ(c1, c1.a = 0), FALSE)]

\* Cpu::cpl
Cpl(m) == [m EXCEPT !.cpu = PutH(PutN([m.cpu EXCEPT !.a = 255 - m.cpu.a], TRUE), TRUE)]

\* Cpu::scf
Scf(m) == [m EXCEPT !.cpu = PutC(PutH(PutN(m.cpu, FALSE), FALSE), TRUE)]

\* Cpu::ccf
Ccf(m) ==
    [m EXCEPT !.cpu = PutC(PutH(PutN(m.cpu, FALSE), FALSE), GetCFlag(m.cpu) # 1)]

-----------------------------------------------------------------------------
(* Cpu::execute_next_opcode (cpu/mod.rs)                                    *)

\* What one match arm leaves behind: the machine, extra_cycles,
\* skip_pc_increase, and whether an arm matched at all.
Arm(m, extra, skip) == [m |-> m, extra |-> extra, skip |-> skip, matched |-> TRUE]

Plain(m) == Arm(m, 0, FALSE)

\* The arms `extra_cycles = f(..); if extra_cycles > 0 { skip_pc_increase = true }`.
SkipIfExtra(r) == Arm(r.m, r.extra, r.extra > 0)

\* The codes of the `load_or_store_value(&lhs, &rhs, None)` arm.
LoadCodes ==
    {1, 2, 6, 8, 10, 14, 17, 18, 22, 26, 30, 33, 38, 46, 49, 54, 62, 226, 224, 234, 240, 250}
        \cup (64..117) \cup (119..127)

\* The `match code` of the prefixed branch.
DispatchPrefixed(m, code, lhs, rhs) ==
    LET group == code \div 8 IN
    CASE group = 0 -> Rotate(m, lhs, "Left", TRUE, FALSE)
      [] group = 1 -> Rotate(m, lhs, "Right", TRUE, FALSE)
      [] group = 2 -> Rotate(m, lhs, "Left", TRUE, TRUE)
      [] group = 3 -> Rotate(m, lhs, "Right", TRUE, TRUE)
      [] group = 4 -> Shift(m, lhs, "Left", FALSE)
      [] group = 5 -> Shift(m, lhs, "Right", FALSE)
      [] group = 6 -> Swap(m, lhs)
      [] group = 7 -> Shift(m, lhs, "Right", TRUE)
      [] group \in 8..15 -> CheckBit(m, group - 8, rhs)
      [] group \in 16..23 -> ResetBit(m, group - 16, rhs)
      [] group \in 24..31 -> SetBitInstr(m, group - 24, rhs)

\* The `match code` of the non-prefixed branch.
DispatchNormal(m, code, lhs, rhs) ==
    LET Jump(r) == Arm(r.m, r.extra, FALSE) IN
    CASE code \in {0, 16, 118} -> Plain(m)
      [] code \in {5, 13, 21, 29, 37, 45, 53, 61} -> Plain(DecrementU8(m, lhs))
      [] code \in {4, 12, 20, 28, 36, 44, 52, 60} -> Plain(IncrementU8(m, lhs))
      [] code \in {3, 19, 35, 51} -> Plain(IncrementU16(m, lhs))
      [] code \in {11, 27, 43, 59} -> Plain(DecrementU16(m, lhs))
      [] code \in {9, 25, 41, 57} -> Plain(AddHlU16(m, rhs))
      [] code \in LoadCodes -> Plain(LoadOrStoreValue(m, lhs, rhs, "None"))
      [] code = 39 -> Plain(Daa(m))
      [] code \in {34, 42} -> Plain(LoadOrStoreValue(m, lhs, rhs, "IncHL"))
      [] code \in {50, 58} -> Plain(LoadOrStoreValue(m, lhs, rhs, "DecHL"))
      [] code = 7 -> Plain(Rotate(m, lhs, "Left", FALSE, FALSE))
      [] code = 15 -> Plain(Rotate(m, lhs, "Right", FALSE, FALSE))
      [] code = 23 -> Plain(Rotate(m, lhs, "Left", FALSE, TRUE))
      [] code = 31 -> Plain(Rotate(m, lhs, "Right", FALSE, TRUE))
      [] code = 24 -> Jump(RelJump(m, rhs, "None"))
      [] code = 32 -> Jump(RelJump(m, rhs, "NZ"))
      [] code = 40 -> Jump(RelJump(m, rhs, "Z"))
      [] code = 48 -> Jump(RelJump(m, rhs, "NC"))
      [] code = 56 -> Jump(RelJump(m, rhs, "C"))
      [] code = 47 -> Plain(Cpl(m))
      [] code = 55 -> Plain(Scf(m))
      [] code = 63 -> Plain(Ccf(m))
      [] code = 192 -> SkipIfExtra(Ret(m, "NZ", FALSE))
      [] code \in {193, 209, 225, 241} -> Plain(PopStackInstr(m, lhs))
      [] code = 194 -> SkipIfExtra(AbsJump(m, rhs, "NZ"))
      [] code \in {195, 233} -> Arm(AbsJump(m, lhs, "None").m, 0, TRUE)
      [] code = 196 -> SkipIfExtra(Call(m, rhs, "NZ"))
      [] code \in {197, 213, 229, 245} -> Plain(PushStackInstr(m, lhs))
      [] code = 200 -> SkipIfExtra(Ret(m, "Z", FALSE))
      [] code = 201 -> Arm(Ret(m, "None", FALSE).m, 0, TRUE)
      [] code = 205 -> Arm(Call(m, lhs, "None").m, 0, TRUE)
      [] code = 208 -> SkipIfExtra(Ret(m, "NC", FALSE))
      [] code = 210 -> SkipIfExtra(AbsJump(m, rhs, "NC"))
      [] code = 212 -> SkipIfExtra(Call(m, rhs, "NC"))
      [] code \in (128..135) \cup {198} -> Plain(AddAU8(m, rhs))
      [] code \in (136..143) \cup {206} -> Plain(Adc(m, rhs))
      [] code \in (144..151) \cup {214} -> Plain(SubA(m, rhs, TRUE))
      [] code \in (152..159) \cup {222} -> Plain(Sbc(m, rhs))
      [] code \in (160..167) \cup {230} -> Plain(And(m, rhs))
      [] code \in (168..175) \cup {238} -> Plain(XorWithA(m, rhs))
      [] code \in (176..183) \cup {246} -> Plain(OrWithA(m, rhs))
      [] code \in (184..191) \cup {254} -> Plain(SubA(m, rhs, FALSE))
      [] code = 232 -> Plain(AddSpE8(m, rhs))
      [] code = 248 -> Plain(LdHlSpE8(m, rhs))
      [] code = 243 -> Plain([m EXCEPT !.cpu.ime = TRUE])
      [] code = 251 -> Plain([m EXCEPT !.cpu.ime = FALSE])
      [] OTHER -> [m |-> m, extra |-> 0, skip |-> FALSE, matched |-> FALSE]

\* A mutant of Outcome: the error forgets that the opcode was prefixed.
OutcomeNeverPrefixed(m, kind, value, prefixed) ==
    [m |-> m, kind |-> kind, value |-> value, prefixed |-> FALSE]

\* Result<usize, CpuError> of one step, with the machine it leaves; a panic
\* unwinds out of the call.
Outcome(m, kind, value, prefixed) ==
    [m |-> m, kind |-> kind, value |-> value, prefixed |-> prefixed]

\* Cpu::execute_next_opcode
ExecuteNextOpcode(m) ==
    LET Finish(prefixed, code, opcode, r) ==
            IF ~r.matched THEN Outcome(m, "OpcodeNotImplemented", code, prefixed)
            ELSE IF r.m.panic THEN Outcome(r.m, "Panic", 0, prefixed)
            ELSE Outcome(IF r.skip THEN r.m
                         ELSE [r.m EXCEPT !.cpu.pc = (r.m.cpu.pc + opcode.bytes) % 65536],
                         "Ok", opcode.t_cycles + r.extra, prefixed)
        Execute(prefixed, code, opcode) ==
            Finish(prefixed, code, opcode,
                   IF prefixed
                   THEN Plain(DispatchPrefixed(m, code, opcode.lhs, opcode.rhs))
                   ELSE DispatchNormal(m, code, opcode.lhs, opcode.rhs))
        Lookup(prefixed, code, opcode_set) ==
            IF code \notin DOMAIN opcode_set
            THEN Outcome(m, "UnrecognizedOpcode", code, prefixed)
            ELSE Execute(prefixed, code, opcode_set[code])
        Decode(first) ==
            IF first = 203
            THEN Lookup(TRUE, ReadMemU8(m, (m.cpu.pc + 1) % 65536), PrefixedOpcodes)
            ELSE Lookup(FALSE, first, NormalOpcodes)
    IN  Decode(ReadMemU8(m, m.cpu.pc))

-----------------------------------------------------------------------------
(* Pixel pipeline (ppu.rs).  A PPU state is [ppu, bus, panic]; the frame    *)
(* buffer is observed through three logs kept in the ppu record for the     *)
(* scanline in progress: frame_writes (FrameBuffer::write calls), popped    *)
(* (colours taken from the FIFO) and modes (the modes entered).             *)

SCREEN_WIDTH == 160

SCREEN_HEIGHT == 144

CYCLES_PER_SCANLINE == 456

\* LCDRegister -> u16
LcdcAddr == 65344

ScyAddr == 65346

ScxAddr == 65347

LyAddr == 65348

PpuState(p, b) == [ppu |-> p, bus |-> b, panic |-> FALSE]

\* Ppu::write_mem_u8
PpuWriteMemU8(st, addr, value) ==
    IF st.panic THEN st
    ELSE LET w == WriteU8(st.bus, addr, value) IN
         [st EXCEPT !.bus = w.bus, !.panic = w.panic]

\* A mutant of FifoPush: the pixel is pushed at the end that pop takes from.
FifoPushSameEnd(st, pixel) ==
    IF st.panic THEN st
    ELSE IF Len(st.ppu.background_fifo) < 16
    THEN [st EXCEPT !.ppu.background_fifo = <<pixel>> \o @]
    ELSE [st EXCEPT !.panic = TRUE]

\* Fifo::push; push_front and pop_back make the first pixel pushed the first
\* popped, so the queue is kept oldest first.
FifoPush(st, pixel) ==
    IF st.panic THEN st
    ELSE IF Len(st.ppu.background_fifo) < 16
    THEN [st EXCEPT !.ppu.background_fifo = Append(@, pixel)]
    ELSE [st EXCEPT !.panic = TRUE]

\* A mutant of SetPixel: the index is taken column by column.
SetPixelColumnMajor(st, x, y, color) ==
    IF x > SCREEN_WIDTH \/ y > SCREEN_HEIGHT THEN [st EXCEPT !.panic = TRUE]
    ELSE [st EXCEPT !.ppu.frame_writes =
             Append(@, [index |-> (x * SCREEN_HEIGHT) + y, color |-> color])]

\* Ppu::set_pixel
SetPixel(st, x, y, color) ==
    IF x > SCREEN_WIDTH \/ y > SCREEN_HEIGHT THEN [st EXCEPT !.panic = TRUE]
    ELSE [st EXCEPT !.ppu.frame_writes =
             Append(@, [index |-> (y * SCREEN_WIDTH) + x, color |-> color])]

\* The tile_num_addr computed by Ppu::get_tile_number.
TileNumAddr(st) ==
    LET lcdc == ReadU8(st.bus, LcdcAddr)
        ly == ReadU8(st.bus, LyAddr)
        scy == ReadU8(st.bus, ScyAddr)
        tile_map_base == GetBit(lcdc, 3)
    IN  38912 + tile_map_base * 1024
              + (((ly + scy) % 256) \div 8) * 32
              + (st.ppu.fetcher_x % 32)

\* Ppu::get_tile_number
GetTileNumber(st) == ReadU8(st.bus, TileNumAddr(st))

\* A mutant of TileAddr: bit 12 follows LCDC bit 4 alone, bit 7 of the tile
\* number is not consulted.
TileAddrLcdcOnly(st) ==
    LET lcdc == ReadU8(st.bus, LcdcAddr)
        ly == ReadU8(st.bus, LyAddr)
        scy == ReadU8(st.bus, ScyAddr)
        bit_12 == IF ~(GetBit(lcdc, 4) = 1) THEN 1 ELSE 0
    IN  32768 + bit_12 * 4096 + st.ppu.tile_number * 16 + ((ly + scy) % 8) * 2

\* The tile_addr computed by Ppu::get_tile_data_low.
TileAddr(st) ==
    LET lcdc == ReadU8(st.bus, LcdcAddr)
        ly == ReadU8(st.bus, LyAddr)
        scy == ReadU8(st.bus, ScyAddr)
        bit_12 == IF ~(GetBit(lcdc, 4) = 1 \/ GetBit(st.ppu.tile_number, 7) = 1)
                  THEN 1 ELSE 0
    IN  32768 + bit_12 * 4096 + st.ppu.tile_number * 16 + ((ly + scy) % 8) * 2

\* Ppu::get_tile_data_low: sets tile_addr and lo_byte.
GetTileDataLow(st) ==
    LET addr == TileAddr(st) IN
    [st EXCEPT !.ppu.tile_addr = addr, !.ppu.lo_byte = ReadU8(st.bus, addr)]

\* Ppu::get_tile_data_high
GetTileDataHigh(st) == ReadU8(st.bus, st.ppu.tile_addr + 1)

\* The `for bit in (0..8).rev()` loop of push_to_fifo; a colour is the index
\* into the palette.
RECURSIVE PushBits(_, _)
PushBits(st, bit) ==
    LET lo == GetBit(st.ppu.lo_byte, bit)
        hi == GetBit(st.ppu.hi_byte, bit)
        next == FifoPush(st, hi * 2 + lo)
    IN  IF bit = 0 THEN next ELSE PushBits(next, bit - 1)

\* Ppu::push_to_fifo
PushToFifo(st) ==
    LET pushed == PushBits(st, 7) IN
    IF pushed.panic THEN pushed
    ELSE [pushed EXCEPT !.ppu.fetcher_x = IF @ + 1 >= 32 THEN 0 ELSE @ + 1]

\* The OAMScan arm of update_graphics.
OamScanTick(st) ==
    IF st.ppu.current_scanline_cycles >= 80
    THEN LET scx == ReadU8(st.bus, ScxAddr) IN
         [st EXCEPT !.ppu.fetcher_x = scx \div 8,
                    !.ppu.pixels_to_discard = scx % 8,
                    !.ppu.background_fifo = <<>>,
                    !.ppu.fetcher_mode = "GetTile",
                    !.ppu.mode = "DrawingPixels"]
    ELSE st

\* The `match self.fetcher_mode` of the DrawingPixels arm.
FetcherStep(st) ==
    CASE st.ppu.fetcher_mode = "GetTile" ->
            [st EXCEPT !.ppu.tile_number = GetTileNumber(st),
                       !.ppu.fetcher_mode = "TileDataLow"]
      [] st.ppu.fetcher_mode = "TileDataLow" ->
            [GetTileDataLow(st) EXCEPT !.ppu.fetcher_mode = "TileDataHigh"]
      [] st.ppu.fetcher_mode = "TileDataHigh" ->
            [st EXCEPT !.ppu.hi_byte = GetTileDataHigh(st),
                       !.ppu.fetcher_mode = "Push"]
      [] st.ppu.fetcher_mode = "Push" ->
            LET pushed == PushToFifo(st) IN
            IF pushed.panic THEN pushed ELSE [pushed EXCEPT !.ppu.fetcher_mode = "GetTile"]
      [] st.ppu.fetcher_mode = "Sleep" -> st

\* The pop of the DrawingPixels arm: a popped colour is discarded while
\* pixels_to_discard > 0 and drawn at (scanline_x, LY) otherwise.
PopPixel(st) ==
    IF st.panic \/ Len(st.ppu.background_fifo) = 0 THEN st
    ELSE LET color == Head(st.ppu.background_fifo)
             taken == [st EXCEPT !.ppu.background_fifo = Tail(@),
                                 !.ppu.popped = Append(@, color)]
         IN  IF taken.ppu.pixels_to_discard > 0
             THEN [taken EXCEPT !.ppu.pixels_to_discard = @ - 1]
             ELSE LET drawn == SetPixel(taken, taken.ppu.scanline_x,
                                        ReadU8(taken.bus, LyAddr), color)
                  IN  IF drawn.panic THEN drawn
                      ELSE [drawn EXCEPT !.ppu.scanline_x = @ + 1]

\* The DrawingPixels arm of update_graphics; i is the loop index of the call.
DrawingPixelsTick(st, i) ==
    LET fetched == IF i % 2 = 1 THEN FetcherStep(st) ELSE st
        popped == PopPixel(fetched)
    IN  IF popped.panic THEN popped
        ELSE IF popped.ppu.scanline_x >= 160
        THEN [popped EXCEPT !.ppu.mode = "HBlank"]
        ELSE popped

\* A mutant of HBlankTick: the scanline ends without LY being advanced.
HBlankTickKeepsLy(st) ==
    IF st.ppu.current_scanline_cycles >= CYCLES_PER_SCANLINE
    THEN LET scx == ReadU8(st.bus, ScxAddr) IN
         [st EXCEPT !.ppu.scanline_x = 0,
                    !.ppu.fetcher_x = scx \div 8,
                    !.ppu.pixels_to_discard = scx % 8,
                    !.ppu.background_fifo = <<>>,
                    !.ppu.fetcher_mode = "GetTile",
                    !.ppu.current_scanline_cycles = 0,
                    !.ppu.mode = "OAMScan"]
    ELSE st

\* The HBlank arm of update_graphics.
HBlankTick(st) ==
    IF st.ppu.current_scanline_cycles >= CYCLES_PER_SCANLINE
    THEN LET scx == ReadU8(st.bus, ScxAddr)
             ly == (ReadU8(st.bus, LyAddr) + 1) % 256
             reset == [st EXCEPT !.ppu.scanline_x = 0,
                                 !.ppu.fetcher_x = scx \div 8,
                                 !.ppu.pixels_to_discard = scx % 8,
                                 !.ppu.background_fifo = <<>>,
                                 !.ppu.fetcher_mode = "GetTile",
                                 !.ppu.current_scanline_cycles = 0]
             written == PpuWriteMemU8(reset, LyAddr, ly)
         IN  IF written.panic THEN written
             ELSE [written EXCEPT !.ppu.mode = IF ly >= 144 THEN "VBlank" ELSE "OAMScan"]
    ELSE st

\* The VBlank arm of update_graphics.
VBlankTick(st) ==
    IF st.ppu.current_scanline_cycles >= CYCLES_PER_SCANLINE
    THEN LET ly == (ReadU8(st.bus, LyAddr) + 1) % 256
             written == PpuWriteMemU8([st EXCEPT !.ppu.current_scanline_cycles = 0],
                                      LyAddr, ly)
         IN  IF written.panic \/ ly < 153 THEN written
             ELSE LET zeroed == PpuWriteMemU8(written, LyAddr, 0) IN
                  IF zeroed.panic THEN zeroed ELSE [zeroed EXCEPT !.ppu.mode = "OAMScan"]
    ELSE st

\* The logs of the scanline in progress: cleared when the cycle counter is
\* reset, and the mode log grows by each mode entered.
Observe(old, new) ==
    IF new.panic THEN new
    ELSE IF new.ppu.current_scanline_cycles = 0
    THEN [new EXCEPT !.ppu.frame_writes = <<>>,
                     !.ppu.popped = <<>>,
                     !.ppu.modes = <<new.ppu.mode>>]
    ELSE IF new.ppu.mode # old.ppu.mode
    THEN [new EXCEPT !.ppu.modes = Append(@, new.ppu.mode)]
    ELSE new

\* One iteration of the `for i in 0..cycles` loop of update_graphics.
Tick(st, i) ==
    LET counted == [st EXCEPT !.ppu.current_scanline_cycles = @ + 1]
        after == CASE counted.ppu.mode = "OAMScan" -> OamScanTick(counted)
                   [] counted.ppu.mode = "DrawingPixels" -> DrawingPixelsTick(counted, i)
                   [] counted.ppu.mode = "HBlank" -> HBlankTick(counted)
                   [] counted.ppu.mode = "VBlank" -> VBlankTick(counted)
    IN  Observe(st, after)

RECURSIVE Cycles(_, _, _)
Cycles(st, i, cycles) ==
    IF i >= cycles \/ st.panic THEN st ELSE Cycles(Tick(st, i), i + 1, cycles)

\* LCDC bit 7: the display is enabled.
LcdEnabled(b) == GetBit(ReadU8(b, LcdcAddr), 7) = 1

\* A mutant of UpdateGraphics: the pipeline runs whatever LCDC holds.
UpdateGraphicsIgnoresLcdc(st, cycles) == Cycles(st, 0, cycles)

\* Ppu::update_graphics
UpdateGraphics(st, cycles) ==
    IF ~LcdEnabled(st.bus) THEN st ELSE Cycles(st, 0, cycles)

-----------------------------------------------------------------------------
(* Initial values                                                          *)

\* Registers::new and Cpu::new
NewCpu ==
    [a |-> 0, b |-> 0, c |-> 0, d |-> 0, e |-> 0, f |-> 0, h |-> 0, l |-> 0,
     sp |-> 0, pc |-> 0, ime |-> FALSE]

\* MemoryBus::new, then load_rom for the cartridge kind (none: no cartridge).
NewBus(rom) == [mem |-> <<>>, rom |-> rom, window |-> -1, unmapped |-> FALSE, size |-> 65535]

\* Ppu::new
NewPpu ==
    [mode |-> "OAMScan", current_scanline_cycles |-> 0, fetcher_mode |-> "GetTile",
     fetcher_x |-> 0, scanline_x |-> 0, tile_number |-> 0, tile_addr |-> 0,
     lo_byte |-> 0, hi_byte |-> 0, background_fifo |-> <<>>, pixels_to_discard |-> 0,
     frame_writes |-> <<>>, popped |-> <<>>, modes |-> <<"OAMScan">>]

NoResult == [kind |-> "None", value |-> 0]

\* Emulator::new: timer_cycles, frames; cycles_this_frame is tick's local and
\* phase its position ("idle" outside tick, "loop" inside the while loop).
NewEmulator == [timer_cycles |-> 0, frames |-> 0, cycles_this_frame |-> 0, phase |-> "idle"]

NoPrev == [cpu |-> NewCpu, bus |-> NewBus("none"), ppu |-> NewPpu]

-----------------------------------------------------------------------------
(* The stack machine: push_stack and pop_stack called on a CPU whose SP    *)
(* and bus were set up by the caller (load_state, LD SP).                  *)

\* Longest sequence of stack operations explored.
MaxStackOps == 2

\* Stack pointers tried: both ends of the address space, the bank-select
\* range, DIV (0xFF04), the boot-ROM latch (0xFF50), work RAM and high RAM.
StackPointers ==
    {0, 1, 2, 8193, 8194, 16385, 16386, 49154, 53248, 65285, 65286, 65361, 65362,
     65534, 65535}

\* Words pushed.
StackValues == {0, 4660, 43981, 65535, 255, 65280}

InitStack ==
    /\ overflow_checks \in BOOLEAN
    /\ \E s \in StackPointers : cpu = [NewCpu EXCEPT !.sp = s]
    /\ \E r \in {"none", "plain", "mbc1"} : bus = NewBus(r)
    /\ ppu = NewPpu
    /\ res = NoResult
    /\ prev = NoPrev
    /\ trace = <<>>
    /\ elapsed = 0
    /\ emu = NewEmulator

\* One entry of the history of stack operations.
StackEntry(op, arg, before, after, ret) ==
    [op |-> op, arg |-> arg, sp0 |-> before.cpu.sp, sp1 |-> after.cpu.sp,
     ret |-> ret, panic |-> after.panic]

DoPushStack(value) ==
    /\ res.kind # "Panic"
    /\ Len(trace) < MaxStackOps
    /\ LET m == PushStack(Machine(cpu, bus), value) IN
        /\ cpu' = m.cpu
        /\ bus' = m.bus
        /\ res' = [kind |-> IF m.panic THEN "Panic" ELSE "Ok", value |-> 0]
        /\ prev' = [prev EXCEPT !.cpu = cpu, !.bus = bus]
        /\ trace' = Append(trace, StackEntry("push", value, Machine(cpu, bus), m, 0))
    /\ UNCHANGED <<ppu, elapsed, emu, overflow_checks>>

DoPopStack ==
    /\ res.kind # "Panic"
    /\ Len(trace) < MaxStackOps
    /\ LET p == PopStack(Machine(cpu, bus)) IN
        /\ cpu' = p.m.cpu
        /\ bus' = p.m.bus
        /\ res' = [kind |-> IF p.m.panic THEN "Panic" ELSE "Ok", value |-> p.value]
        /\ prev' = [prev EXCEPT !.cpu = cpu, !.bus = bus]
        /\ trace' = Append(trace, StackEntry("pop", 0, Machine(cpu, bus), p.m, p.value))
    /\ UNCHANGED <<ppu, elapsed, emu, overflow_checks>>

NextStack ==
    \/ \E v \in StackValues : DoPushStack(v)
    \/ DoPopStack

SpecStack == InitStack /\ [][NextStack]_vars

-----------------------------------------------------------------------------
(* The CPU stepped through short programs: execute_next_opcode called on a *)
(* CPU whose registers were set by load_state and whose memory holds the   *)
(* program, as the test harness and the boot ROM loader set them up.       *)

\* Longest run of execute_next_opcode calls explored.
MaxSteps == 8

\* MemoryBlock::write of consecutive bytes, as load_rom and load_range copy them.
RECURSIVE LoadBytes(_, _, _)
LoadBytes(b, at, bytes) ==
    IF bytes = <<>> THEN b
    ELSE LoadBytes(StoreByte(b, at, Head(bytes)), at + 1, Tail(bytes))

\* Where the test programs are placed: the start of work RAM.
ProgramBase == BlockStart(4)

\* Accumulator values tried by the rotations: all of them.
Accumulators == 0..255

\* Operand bytes tried: both ends, the nibble borders and the sign border.
Operands == {0, 1, 15, 16, 17, 60, 127, 128, 129, 240, 254, 255}

\* Flag registers tried: every flag is set in two and clear in two.
FlagStates == {0, 240, 80, 160}

\* Sampled [HL] targets: work RAM, high RAM.
HlTargets == {49408, 53248, 65408}

\* CP A,B / SUB A,B / CP A,n8 with the operand in B and, for the immediate
\* form, after the opcode; the accumulator ranges over the operand samples.
InitCompare ==
    \E a \in Operands, n \in Operands, f \in FlagStates, op \in {184, 144, 254} :
        /\ cpu = [NewCpu EXCEPT !.a = a, !.b = n, !.f = f, !.pc = ProgramBase]
        /\ bus = LoadBytes(NewBus("plain"), ProgramBase,
                           IF op = 254 THEN <<op, n>> ELSE <<op>>)

\* The 8-bit INC and DEC opcodes of the table, the operand in its register.
IncDecRegisterCodes == {4, 5, 12, 13, 21, 29, 36, 61}

InitIncDecRegister ==
    \E v \in 0..255, f \in FlagStates, op \in IncDecRegisterCodes :
        /\ cpu = [SetReg8([NewCpu EXCEPT !.f = f], NormalOpcodes[op].lhs.reg, v)
                     EXCEPT !.pc = ProgramBase]
        /\ bus = LoadBytes(NewBus("plain"), ProgramBase, <<op>>)

\* INC [HL] and DEC [HL], the operand in memory.
InitIncDecMemory ==
    \E v \in 0..255, f \in {0, 240}, op \in {52, 53}, hl \in HlTargets :
        /\ cpu = [SetHl([NewCpu EXCEPT !.f = f], hl) EXCEPT !.pc = ProgramBase]
        /\ bus = StoreByte(LoadBytes(NewBus("plain"), ProgramBase, <<op>>), hl, v)

\* A run of RLCA opcodes.
InitRotate ==
    \E a \in Accumulators, f \in {0, 240} :
        /\ cpu = [NewCpu EXCEPT !.a = a, !.f = f, !.pc = ProgramBase]
        /\ bus = LoadBytes(NewBus("plain"), ProgramBase, <<7, 7, 7, 7, 7, 7, 7, 7, 7, 7>>)

\* The first bytes of the boot ROM: LD SP,0xFFFE; XOR A; LD HL,0x9FFF.
BootBytes == <<49, 254, 255, 175, 33, 255, 159>>

InitBoot ==
    \E a \in {0, 1, 128, 255}, f \in FlagStates, sp \in {0, 4660, 65535},
       hl \in {0, 40959, 65535}, rom \in {"none", "plain", "mbc1"} :
        /\ cpu = [SetHl([NewCpu EXCEPT !.a = a, !.f = f, !.sp = sp], hl) EXCEPT !.pc = 0]
        /\ bus = LoadBytes(NewBus(rom), 0, BootBytes)

\* Register files for the one-instruction programs: BC = 0 and HL in the
\* bank-select range, BC = 0xFFFF and HL at the boot-ROM latch.
RegisterSamples ==
    {[NewCpu EXCEPT !.a = 18, !.h = 32, !.d = 193, !.sp = 65534],
     [NewCpu EXCEPT !.a = 255, !.f = 240, !.b = 255, !.c = 255, !.e = 1,
                    !.h = 255, !.l = 80, !.sp = 0]}

\* Every opcode byte once, followed by two operand bytes (after 0xCB the first
\* is the prefixed code), at the start of work RAM and two bytes before the
\* end of its first block, with and without a cartridge.
InitAnyOpcode ==
    \E op \in 0..255, n \in {0, 17, 255}, at \in {ProgramBase, 53246},
       c \in RegisterSamples, rom \in {"none", "mbc1"} :
        /\ cpu = [c EXCEPT !.pc = at]
        /\ bus = LoadBytes(NewBus(rom), at, <<op, n, 192>>)

InitCpu ==
    /\ overflow_checks \in BOOLEAN
    /\ \/ InitAnyOpcode
       \/ InitCompare
       \/ InitIncDecRegister
       \/ InitIncDecMemory
       \/ InitRotate
       \/ InitBoot
    /\ ppu = NewPpu
    /\ res = NoResult
    /\ prev = NoPrev
    /\ trace = <<>>
    /\ elapsed = 0
    /\ emu = NewEmulator

\* What the log keeps of one execute_next_opcode call.
ExecEntry(before, o) ==
    [op |-> "exec", code |-> ReadMemU8(before, before.cpu.pc),
     pc0 |-> before.cpu.pc, a0 |-> before.cpu.a, f0 |-> before.cpu.f,
     pc1 |-> o.m.cpu.pc, a1 |-> o.m.cpu.a, f1 |-> o.m.cpu.f, kind |-> o.kind]

\* One call of Cpu::execute_next_opcode; the caller stops at an error.
Step ==
    /\ res.kind \in {"None", "Ok"}
    /\ Len(trace) < MaxSteps
    /\ LET Leave(m, o) ==
               /\ cpu' = o.m.cpu
               /\ bus' = o.m.bus
               /\ res' = [kind |-> o.kind, value |-> o.value, prefixed |-> o.prefixed]
               /\ prev' = [prev EXCEPT !.cpu = cpu, !.bus = bus]
               /\ trace' = Append(trace, ExecEntry(m, o))
       IN  Leave(Machine(cpu, bus), ExecuteNextOpcode(Machine(cpu, bus)))
    /\ UNCHANGED <<ppu, elapsed, emu, overflow_checks>>

NextCpu == Step

SpecCpu == InitCpu /\ [][NextCpu]_vars

-----------------------------------------------------------------------------
(* The arithmetic and control-flow instructions run as short programs at   *)
(* the start of work RAM, one execute_next_opcode call per step.           *)

\* ADC and SBC with the operand in B and as the immediate byte; every
\* accumulator, the operand samples, carry clear and set.
InitAdcSbc ==
    \E a \in Accumulators, n \in Operands, f \in {0, 240, 16}, op \in {136, 206, 152, 222} :
        /\ cpu = [NewCpu EXCEPT !.a = a, !.b = n, !.f = f, !.pc = ProgramBase]
        /\ bus = LoadBytes(NewBus("plain"), ProgramBase,
                           IF op \in {206, 222} THEN <<op, n>> ELSE <<op>>)

\* Packed-BCD bytes: both nibbles at most 9.
BcdBytes == {hi * 16 + lo : hi \in 0..9, lo \in 0..9}

\* ADD A,[HL] or SUB A,B on two packed-BCD bytes, then DAA.
InitBcd ==
    \E a \in BcdBytes, b \in BcdBytes, f \in {0, 240}, op \in {134, 144} :
        /\ cpu = [SetHl([NewCpu EXCEPT !.a = a, !.b = b, !.f = f], 49408)
                     EXCEPT !.pc = ProgramBase]
        /\ bus = StoreByte(LoadBytes(NewBus("plain"), ProgramBase, <<op, 39>>), 49408, b)

\* RLA; RRA, or one prefixed rotate through carry of C or of [HL], on every
\* byte d, which A, C and the byte at HL all hold.
RotatePrograms == {<<23, 31>>, <<203, 17>>, <<203, 25>>, <<203, 22>>, <<203, 30>>}

InitRotateCarry ==
    \E d \in Accumulators, f \in {0, 16, 240}, prog \in RotatePrograms :
        /\ cpu = [SetHl([NewCpu EXCEPT !.a = d, !.c = d, !.f = f], 49408)
                     EXCEPT !.pc = ProgramBase]
        /\ bus = StoreByte(LoadBytes(NewBus("plain"), ProgramBase, prog), 49408, d)

\* BIT b,H or BIT b,[HL] on every byte x, which H or the byte at HL holds.
InitBit ==
    \E x \in Accumulators, f \in {0, 16, 240}, b \in 0..7, mem \in BOOLEAN :
        /\ cpu = [(IF mem THEN SetHl(NewCpu, 49408) ELSE [NewCpu EXCEPT !.h = x, !.l = 0])
                     EXCEPT !.f = f, !.pc = ProgramBase]
        /\ bus = StoreByte(LoadBytes(NewBus("plain"), ProgramBase,
                                     <<203, 64 + 8 * b + (IF mem THEN 6 ELSE 4)>>),
                           49408, IF mem THEN x ELSE 255 - x)

\* CALL a16 at p with RET at a16, the stack pointer at s; all in work RAM and
\* high RAM.
CallSites == {49152, 53245, 53246, 57341}

CallTargets == {50176, 54272, 65408}

CallStacks == {51202, 53248, 55296, 65534}

InitCallRet ==
    \E p \in CallSites, a16 \in CallTargets, s \in CallStacks :
        /\ cpu = [NewCpu EXCEPT !.sp = s, !.pc = p]
        /\ bus = StoreByte(LoadBytes(NewBus("plain"), p, <<205, Lo(a16), Hi(a16)>>), a16, 201)

InitAlu ==
    /\ \/ InitAdcSbc /\ overflow_checks = FALSE
       \/ InitCallRet /\ overflow_checks \in BOOLEAN
       \/ InitBcd /\ overflow_checks = FALSE
       \/ InitRotateCarry /\ overflow_checks = FALSE
       \/ InitBit /\ overflow_checks = FALSE
    /\ ppu = NewPpu
    /\ res = NoResult
    /\ prev = NoPrev
    /\ trace = <<>>
    /\ elapsed = 0
    /\ emu = NewEmulator

SpecAlu == InitAlu /\ [][NextCpu]_vars

-----------------------------------------------------------------------------
(* The pixel pipeline driven as Emulator::tick drives it: update_graphics   *)
(* called with the cycle count of each CPU instruction, and the program     *)
(* switching the display on and off through LCDC.                           *)

\* Cycles fed to the enabled pipeline in one run: MAX_CYCLES_PER_FRAME.
MaxCycles == 70224

\* The program writes LCDC only this early in the run (two scanlines).
LcdcWriteWindow == 912

\* Cycle counts execute_next_opcode returns (t_cycles plus extra_cycles): those
\* of LD HL,n16 and CALL.  Every count is even, so the fetcher's `i % 2` sees
\* the same cycles whatever the split into calls.
CycleCounts == {12, 24}

\* LCDC, SCX and SCY as the boot ROM leaves them, with a fine scroll, and as
\* MemoryBus::new leaves them (every byte 0xFF).
PpuConfigs ==
    {[lcdc |-> 145, scx |-> 0, scy |-> 0],
     [lcdc |-> 145, scx |-> 5, scy |-> 0],
     [lcdc |-> 255, scx |-> 255, scy |-> 255]}

\* Tile 0xFF, the tile an untouched tile map selects: two bytes per row.
TileBytes == <<83, 15, 165, 60, 0, 255, 255, 0, 129, 66, 24, 231, 1, 128, 170, 85>>

TileBase == 32768 + (255 * 16)

InitPpu ==
    /\ overflow_checks = FALSE
    /\ cpu = NewCpu
    /\ \E cfg \in PpuConfigs :
        bus = StoreByte(StoreByte(StoreByte(StoreByte(
                  LoadBytes(NewBus("plain"), TileBase, TileBytes),
                  LcdcAddr, cfg.lcdc), ScxAddr, cfg.scx), ScyAddr, cfg.scy), LyAddr, 0)
    /\ ppu = NewPpu
    /\ res = NoResult
    /\ prev = NoPrev
    /\ trace = <<>>
    /\ elapsed = 0
    /\ emu = NewEmulator

\* Ppu::update_graphics(cycles); elapsed counts the cycles fed while the
\* display is enabled.
DoUpdateGraphics(cycles) ==
    /\ res.kind # "Panic"
    /\ LcdEnabled(bus) => elapsed + cycles <= MaxCycles
    /\ LET st == UpdateGraphics(PpuState(ppu, bus), cycles) IN
        /\ ppu' = st.ppu
        /\ bus' = st.bus
        /\ res' = [kind |-> IF st.panic THEN "Panic" ELSE "Graphics", value |-> 0]
    /\ elapsed' = IF LcdEnabled(bus) THEN elapsed + cycles ELSE elapsed
    /\ UNCHANGED <<cpu, prev, trace, emu, overflow_checks>>

\* The program flips LCDC bit 7 with a write to 0xFF40.
DoWriteLcdc ==
    /\ res.kind # "Panic"
    /\ elapsed <= LcdcWriteWindow
    /\ LET lcdc == ReadU8(bus, LcdcAddr)
           value == IF GetBit(lcdc, 7) = 1 THEN ClearBit(lcdc, 7) ELSE SetBit(lcdc, 7)
           w == WriteU8(bus, LcdcAddr, value)
       IN  /\ bus' = w.bus
           /\ res' = [kind |-> IF w.panic THEN "Panic" ELSE "Lcdc", value |-> value]
    /\ UNCHANGED <<cpu, ppu, prev, trace, elapsed, emu, overflow_checks>>

NextPpu ==
    \/ \E cycles \in CycleCounts : DoUpdateGraphics(cycles)
    \/ DoWriteLcdc

SpecPpu == InitPpu /\ [][NextPpu]_vars

-----------------------------------------------------------------------------
(* The pixel pipeline driven with arbitrary cycle counts: update_graphics  *)
(* called with budgets of any parity, one-cycle calls included, through   *)
(* OAMScan and the first fetches of DrawingPixels.                         *)

\* Cycles fed in one run: the 80 of OAMScan and 64 of DrawingPixels, room
\* for eight rounds of the fetcher.
MaxSplitCycles == 144

\* Budgets of one call.
SplitCounts == {1, 2, 3, 4}

InitSplit ==
    /\ overflow_checks = FALSE
    /\ cpu = NewCpu
    /\ \E cfg \in PpuConfigs :
        bus = StoreByte(StoreByte(StoreByte(StoreByte(
                  LoadBytes(NewBus("plain"), TileBase, TileBytes),
                  LcdcAddr, cfg.lcdc), ScxAddr, cfg.scx), ScyAddr, cfg.scy), LyAddr, 0)
    /\ ppu = NewPpu
    /\ res = NoResult
    /\ prev = NoPrev
    /\ trace = <<>>
    /\ elapsed = 0
    /\ emu = NewEmulator

\* Ppu::update_graphics(cycles) with the display enabled; res.value is the
\* budget of the call and prev the PPU and the bus it started from.
DoUpdateGraphicsBy(cycles) ==
    /\ res.kind # "Panic"
    /\ elapsed + cycles <= MaxSplitCycles
    /\ \E st \in {UpdateGraphics(PpuState(ppu, bus), cycles)} :
        /\ ppu' = st.ppu
        /\ bus' = st.bus
        /\ res' = [kind |-> IF st.panic THEN "Panic" ELSE "Graphics", value |-> cycles]
    /\ prev' = [prev EXCEPT !.ppu = ppu, !.bus = bus]
    /\ elapsed' = elapsed + cycles
    /\ UNCHANGED <<cpu, trace, emu, overflow_checks>>

NextSplit == \E cycles \in SplitCounts : DoUpdateGraphicsBy(cycles)

SpecSplit == InitSplit /\ [][NextSplit]_vars

-----------------------------------------------------------------------------
(* The fetcher on its own: the steps of `match self.fetcher_mode` taken    *)
(* one at a time from the start of DrawingPixels, for every tile number    *)
(* the tile map can hold and both settings of LCDC bit 4.                  *)

\* Fetcher steps per run: one round, GetTile to Push.
MaxFetcherSteps == 4

\* LCDC with bit 4 set and clear (display on, map at 0x9800).
FetchLcdcs == {145, 129}

\* LY and SCY: sub-rows 0..7 among their sums, a sum above 255 included.
FetchLys == {0, 5, 143}
FetchScys == {0, 1, 3, 255}

\* Sixteen bytes of tile data, different at every offset, from a seed.
TileData(seed) == [k \in 1..16 |-> (seed + 17 * k) % 256]

\* VRAM with tile t present in the table at 0x8000 and, with other bytes, in
\* the table at 0x9000 (the same block for t >= 128), and t in the tile map
\* where the fetcher looks.
FetchBus(t, lcdc, ly, scy) ==
    LET regs == StoreByte(StoreByte(StoreByte(StoreByte(NewBus("plain"),
                    LcdcAddr, lcdc), ScxAddr, 0), ScyAddr, scy), LyAddr, ly)
        tiles == LoadBytes(LoadBytes(regs, 36864 + (t % 128) * 16, TileData(t + 101)),
                           32768 + t * 16, TileData(t))
    IN  StoreByte(tiles, TileNumAddr(PpuState(NewPpu, tiles)), t)

InitFetch ==
    /\ overflow_checks = FALSE
    /\ cpu = NewCpu
    /\ \E t \in 0..255, lcdc \in FetchLcdcs, ly \in FetchLys, scy \in FetchScys :
           bus = FetchBus(t, lcdc, ly, scy)
    /\ ppu = [NewPpu EXCEPT !.mode = "DrawingPixels", !.current_scanline_cycles = 80,
                            !.modes = <<"OAMScan", "DrawingPixels">>]
    /\ res = NoResult
    /\ prev = NoPrev
    /\ trace = <<>>
    /\ elapsed = 0
    /\ emu = NewEmulator

\* One odd cycle of DrawingPixels: the arm of `match self.fetcher_mode`.
\* trace lists the fetcher modes whose arms have run.
DoFetcherStep ==
    /\ res.kind # "Panic"
    /\ elapsed < MaxFetcherSteps
    /\ \E st \in {FetcherStep(PpuState(ppu, bus))} :
        /\ ppu' = st.ppu
        /\ bus' = st.bus
        /\ res' = [kind |-> IF st.panic THEN "Panic" ELSE "Fetched", value |-> 0]
    /\ trace' = Append(trace, ppu.fetcher_mode)
    /\ prev' = [prev EXCEPT !.ppu = ppu, !.bus = bus]
    /\ elapsed' = elapsed + 1
    /\ UNCHANGED <<cpu, emu, overflow_checks>>

NextFetch == DoFetcherStep

SpecFetch == InitFetch /\ [][NextFetch]_vars

-----------------------------------------------------------------------------
(* The frame driver (emulator/mod.rs): Emulator::tick runs the CPU, the     *)
(* timer and the PPU in a loop until the frame's cycle budget is spent.     *)
(* An emulator state is [cpu, bus, ppu, emu, panic, log]; log lists the     *)
(* calls of the current loop iteration as <<callee, cycles>>.  The value a  *)
(* step works on is bound once, as the element of a one-element set.        *)

DIV_UPDATE_FREQ == 256

MAX_CYCLES_PER_FRAME == 70224

\* Timer::Div -> u16
DivAddr == 65284

\* What Cpu::handle_interrupts returns: None, or Some(interrupt_cycles).  The
\* method is not part of the source tree; the interrupt source is external,
\* so the result is an input of the loop.
IrqOutcomes == {[some |-> FALSE, cycles |-> 0], [some |-> TRUE, cycles |-> 20]}

\* A mutant of UpdateTimers: the timer update is left out.
UpdateTimersSkipped(s, cycles) == s

\* Emulator::update_timers
UpdateTimers(s, cycles) ==
    CHOOSE r \in
        {LET timer_cycles == t.emu.timer_cycles + cycles
             Called(u) == [u EXCEPT !.log = Append(@, <<"timer", cycles>>)]
             Written(w) == [t EXCEPT !.bus = w.bus, !.panic = w.panic,
                                     !.emu.timer_cycles = 0]
         IN  IF t.panic THEN t
             ELSE IF timer_cycles >= DIV_UPDATE_FREQ
             THEN Called(Written(WriteU8(t.bus, DivAddr,
                                         (ReadU8(t.bus, DivAddr) + 1) % 256)))
             ELSE Called([t EXCEPT !.emu.timer_cycles = timer_cycles])
         : t \in {s}} : TRUE

\* self.ppu.update_graphics(cycles) as tick calls it
UpdatePpu(s, cycles) ==
    CHOOSE r \in
        {IF t.panic THEN t
         ELSE CHOOSE d \in
                  {[t EXCEPT !.ppu = st.ppu, !.bus = st.bus, !.panic = st.panic,
                             !.log = Append(@, <<"ppu", cycles>>)]
                   : st \in {UpdateGraphics(PpuState(t.ppu, t.bus), cycles)}} : TRUE
         : t \in {s}} : TRUE

\* The body of tick's while loop.  o is the outcome of execute_next_opcode,
\* irq what handle_interrupts returns; `?` leaves tick with the error when
\* propagate is set.  emu.phase tells where tick stands afterwards: "loop",
\* "idle" (returned the error) or "aborted" (a panic unwound through it).
TickIterationCore(s, o, irq, propagate) ==
    LET Ran(cycles) ==
            [s EXCEPT !.cpu = o.m.cpu, !.bus = o.m.bus,
                      !.log = <<<<"cpu", cycles>>>>,
                      !.emu.cycles_this_frame = @ + cycles]
        Aborted(t) == IF t.panic THEN [t EXCEPT !.emu.phase = "aborted"] ELSE t
        Updated(cycles) ==
            LET Interrupt(t) ==
                    IF irq.some /\ ~t.panic
                    THEN UpdatePpu(UpdateTimers(
                             [t EXCEPT !.emu.cycles_this_frame = @ + irq.cycles],
                             cycles), cycles)
                    ELSE t
            IN  CHOOSE r \in
                    {Aborted(u) : u \in
                        {Interrupt(t) : t \in
                            {UpdatePpu(UpdateTimers(Ran(cycles), cycles), cycles)}}} : TRUE
    IN  IF o.kind = "Panic"
        THEN [s EXCEPT !.cpu = o.m.cpu, !.bus = o.m.bus, !.panic = TRUE, !.log = <<>>,
                       !.emu.phase = "aborted"]
        ELSE IF o.kind # "Ok" /\ propagate
        THEN [s EXCEPT !.cpu = o.m.cpu, !.bus = o.m.bus, !.log = <<<<"cpu", 0>>>>,
                       !.emu.phase = "idle"]
        ELSE Updated(IF o.kind = "Ok" THEN o.value ELSE 0)

\* A mutant of TickIteration: the error of the CPU step is not propagated.
TickIterationIgnoresError(s, o, irq) == TickIterationCore(s, o, irq, FALSE)

\* `let cycles = self.cpu.execute_next_opcode()?; ...` (mod.rs:174-186)
TickIteration(s, o, irq) == TickIterationCore(s, o, irq, TRUE)

\* The cycles the calls of one callee in a log received, from entry i on.
RECURSIVE LogCycles(_, _, _)
LogCycles(log, callee, i) ==
    IF i > Len(log) THEN 0
    ELSE (IF log[i][1] = callee THEN log[i][2] ELSE 0) + LogCycles(log, callee, i + 1)

\* In tick, elapsed adds up the cycles handed to update_timers and to
\* update_graphics since the tick began, and counts the loop's iterations.
NoCyclesFed == [timers |-> 0, ppu |-> 0, calls |-> 0]

\* Ticks explored per run.
MaxTicks == 1

\* handle_interrupts reports an interrupt only this close to either end of a
\* frame's cycle budget.
IrqWindow == 24

\* Programs at the start of work RAM: `JR -2`, a loop that never ends, and
\* two NOPs followed by the unwritten RAM byte 0xFF, which is no opcode.
TickPrograms == {<<24, 254>>, <<0, 0>>}

\* Emulator::new, the program in place, LY cleared by Ppu::new.
InitTick ==
    /\ overflow_checks = FALSE
    /\ \E program \in TickPrograms :
        /\ cpu = [NewCpu EXCEPT !.pc = ProgramBase]
        /\ bus = StoreByte(LoadBytes(NewBus("plain"), ProgramBase, program), LyAddr, 0)
    /\ ppu = NewPpu
    /\ res = NoResult
    /\ prev = NoPrev
    /\ trace = <<>>
    /\ elapsed = NoCyclesFed
    /\ emu = NewEmulator

\* Emulator::tick up to the while loop (mod.rs:168-172).
DoTickEnter ==
    /\ emu.phase = "idle"
    /\ res.kind \in {"None", "Frame"}
    /\ emu.frames < MaxTicks
    /\ emu' = [emu EXCEPT !.frames = IF @ + 1 >= 60 THEN 0 ELSE @ + 1,
                          !.cycles_this_frame = 0, !.phase = "loop"]
    /\ res' = [kind |-> "Running", value |-> 0]
    /\ trace' = <<>>
    /\ elapsed' = NoCyclesFed
    /\ UNCHANGED <<cpu, bus, ppu, prev, overflow_checks>>

\* One iteration of the while loop (mod.rs:173-187).
DoTickIteration(irq) ==
    /\ emu.phase = "loop"
    /\ emu.cycles_this_frame < MAX_CYCLES_PER_FRAME
    /\ irq.some => \/ emu.cycles_this_frame < IrqWindow
                   \/ emu.cycles_this_frame + IrqWindow >= MAX_CYCLES_PER_FRAME
    /\ LET Leave(o, s) ==
               /\ cpu' = s.cpu
               /\ bus' = s.bus
               /\ ppu' = s.ppu
               /\ emu' = s.emu
               /\ trace' = s.log
               /\ elapsed' = [timers |-> elapsed.timers + LogCycles(s.log, "timer", 1),
                              ppu |-> elapsed.ppu + LogCycles(s.log, "ppu", 1),
                              calls |-> elapsed.calls + 1]
               /\ res' = CASE s.emu.phase = "loop" -> [kind |-> "Running", value |-> o.value]
                            [] s.emu.phase = "aborted" -> [kind |-> "Panic", value |-> 0]
                            [] OTHER -> [kind |-> o.kind, value |-> o.value,
                                         prefixed |-> o.prefixed]
       IN  \E o \in {ExecuteNextOpcode(Machine(cpu, bus))} :
               \E s \in {TickIteration([cpu |-> cpu, bus |-> bus, ppu |-> ppu, emu |-> emu,
                                         panic |-> FALSE, log |-> <<>>], o, irq)} :
                   Leave(o, s)
    /\ prev' = [cpu |-> cpu, bus |-> bus, ppu |-> ppu]
    /\ UNCHANGED overflow_checks

\* The loop condition fails and tick returns Ok(self.ppu.get_frame()).
DoTickReturn ==
    /\ emu.phase = "loop"
    /\ emu.cycles_this_frame >= MAX_CYCLES_PER_FRAME
    /\ emu' = [emu EXCEPT !.phase = "idle"]
    /\ res' = [kind |-> "Frame", value |-> 0]
    /\ trace' = <<>>
    /\ UNCHANGED <<cpu, bus, ppu, prev, elapsed, overflow_checks>>

NextTick ==
    \/ DoTickEnter
    \/ \E irq \in IrqOutcomes : DoTickIteration(irq)
    \/ DoTickReturn

SpecTick == InitTick /\ [][NextTick]_vars

\* tick is one synchronous call: once entered, its loop runs each iteration
\* and then returns; nothing obliges the caller to call tick again.  An
\* iteration can run exactly while tick is in its loop below the budget, so
\* weak fairness of the iterations is written with that condition in place of
\* ENABLED.
TickIterates == \E irq \in IrqOutcomes : DoTickIteration(irq)

SpecTickFair ==
    /\ SpecTick
    /\ WF_vars(DoTickReturn)
    /\ \/ []<>~(emu.phase = "loop" /\ emu.cycles_this_frame < MAX_CYCLES_PER_FRAME)
       \/ []<><<TickIterates>>_vars

-----------------------------------------------------------------------------
(* The memory bus on its own: write_u8, read_u8 and read_u16 called on a    *)
(* bus that holds the boot ROM and, where given, a cartridge.  trace keeps  *)
(* what the calls so far have established: whether 0xFF50 was written, and  *)
(* for each ROM bank the window's bytes when that bank was last left.  res  *)
(* describes the last call: op, addr, value, and for a write the byte that  *)
(* was at addr (old) and the bank that was active (from).                   *)

\* Bus calls explored per run.
MaxBusOps == 3

\* Addresses written: the boot area, the bank-select range, the bank window,
\* work RAM and its echo, the unusable gap and the boot-ROM latch.
BusWriteAddrs == {0, 8192, 16384, 49152, 57344, 65184, 65360}

\* Values written; as bank numbers: 1, 2, 0x20 (low five bits zero), 0x55.
BusWriteValues == {1, 2, 32, 85}

\* Addresses read as words: the last byte of three blocks, and inner addresses.
BusWordAddrs == {16383, 53247, 65407, 0, 49152}

\* Addresses read as bytes.
BusByteAddrs == {0, 16384, 57344, 65184}

\* Offsets into the window 0x4000..=0x7FFF that are compared.
WindowSamples == {16384, 32767}

\* The bytes the window shows.
WindowBytes(b) == [a \in WindowSamples |-> ReadU8(b, a)]

\* The bank whose image memory[1] holds: the one set_rom_bank cloned last, or
\* bank 1, whose bytes load_rom copied to 0x4000..0x7FFF.
ActiveBank(b) == IF b.window >= 0 THEN b.window ELSE 1

\* The size MemoryBus::new is given: the whole address space, or half of it.
BusSizes == {32767, 65535}

\* Ranges asked of get_range, as <<start, end>>: inside a block, across the
\* end of a block, up to the last address, empty and reversed.
BusRanges ==
    {<<16382, 16386>>, <<32766, 32768>>, <<65182, 65186>>, <<65533, 65535>>,
     <<16384, 16384>>, <<16386, 16382>>}

NoBusHistory == [latched |-> FALSE, banks |-> [k \in 0..3 |-> <<>>]]

\* MemoryBus::new and load_rom: the boot ROM, then the cartridge.
InitBus ==
    /\ overflow_checks = FALSE
    /\ cpu = NewCpu
    /\ \E rom \in {"none", "plain", "mbc1"}, size \in BusSizes :
           bus = LoadBytes([NewBus(rom) EXCEPT !.size = size], 0, BootBytes)
    /\ ppu = NewPpu
    /\ res = NoResult
    /\ prev = NoPrev
    /\ trace = NoBusHistory
    /\ elapsed = 0
    /\ emu = NewEmulator

\* bus.write_u8(addr, value)
DoBusWrite(addr, value) ==
    /\ res.kind # "Panic"
    /\ elapsed < MaxBusOps
    /\ LET Leave(w) ==
               /\ bus' = w.bus
               /\ res' = [kind |-> IF w.panic THEN "Panic" ELSE "Write", value |-> value,
                          op |-> "write_u8", addr |-> addr, old |-> ReadU8(bus, addr),
                          from |-> ActiveBank(bus)]
               /\ trace' = IF w.panic THEN trace
                           ELSE [latched |-> trace.latched \/ addr = 65360,
                                 banks |-> IF addr >= 8192 /\ addr <= 16383
                                           THEN [trace.banks EXCEPT ![ActiveBank(bus)] =
                                                     WindowBytes(bus)]
                                           ELSE trace.banks]
       IN  Leave(WriteU8(bus, addr, value))
    /\ elapsed' = elapsed + 1
    /\ UNCHANGED <<cpu, ppu, prev, emu, overflow_checks>>

\* bus.read_u8(addr)
DoBusRead8(addr) ==
    /\ res.kind # "Panic"
    /\ elapsed < MaxBusOps
    /\ res' = [kind |-> "Read8", value |-> ReadU8(bus, addr), op |-> "read_u8",
               addr |-> addr]
    /\ elapsed' = elapsed + 1
    /\ UNCHANGED <<cpu, bus, ppu, prev, trace, emu, overflow_checks>>

\* bus.read_u16(addr)
DoBusRead16(addr) ==
    /\ res.kind # "Panic"
    /\ elapsed < MaxBusOps
    /\ LET Leave(r) ==
               res' = [kind |-> IF r.panic THEN "Panic" ELSE "Read16", value |-> r.value,
                       op |-> "read_u16", addr |-> addr]
       IN  Leave(ReadU16(bus, addr))
    /\ elapsed' = elapsed + 1
    /\ UNCHANGED <<cpu, bus, ppu, prev, trace, emu, overflow_checks>>

\* bus.get_range(start..end)
DoBusGetRange(start, end) ==
    /\ res.kind # "Panic"
    /\ elapsed < MaxBusOps
    /\ LET Leave(r) ==
               res' = [kind |-> r.kind, value |-> r.value, op |-> "get_range",
                       addr |-> start, end |-> end]
       IN  Leave(GetRange(bus, start, end))
    /\ elapsed' = elapsed + 1
    /\ UNCHANGED <<cpu, bus, ppu, prev, trace, emu, overflow_checks>>

NextBus ==
    \/ \E addr \in BusWriteAddrs, value \in BusWriteValues : DoBusWrite(addr, value)
    \/ \E r \in BusRanges : DoBusGetRange(r[1], r[2])
    \/ \E addr \in BusByteAddrs : DoBusRead8(addr)
    \/ \E addr \in BusWordAddrs : DoBusRead16(addr)

SpecBus == InitBus /\ [][NextBus]_vars

-----------------------------------------------------------------------------
(* The cartridge on its own: Cartridge::from on an image of N banks, then   *)
(* read and write called from outside (cartridge.rs).                      *)

\* Cartridge calls explored per run.
MaxCartOps == 3

\* Cartridge::from: fixed_rom_bank is the image's first 16 KiB; for MBC1
\* switchable_banks[i] is the image's bank i for i in 0..rom_banks, without an
\* MBC it is the one bank at 0x4000; current_bank starts at 0.
CartridgeFrom(mbc, rom_banks) ==
    [mbc |-> mbc, banks |-> IF mbc = "MBC1" THEN rom_banks ELSE 1, current_bank |-> 0]

\* self.switchable_banks[i][k]
SwitchableByte(c, i, k) ==
    IF c.mbc = "MBC1" THEN CartByte(16384 * i + k) ELSE CartByte(16384 + k)

\* Cartridge::read: indexing past switchable_banks.len() panics.
CartridgeRead(c, addr) ==
    IF addr < 16384 THEN [value |-> CartByte(addr), panic |-> FALSE]
    ELSE IF c.current_bank >= c.banks THEN [value |-> 0, panic |-> TRUE]
    ELSE [value |-> SwitchableByte(c, c.current_bank, addr - 16384), panic |-> FALSE]

\* Cartridge::set_rom_bank: `bank_number - 1` is a u8 subtraction, a panic on
\* underflow when the build checks it and 255 otherwise.
CartridgeSetRomBank(c, value) ==
    LET bank_number == IF value = 0 THEN 1 ELSE value % 32 IN
    IF bank_number = 0 /\ overflow_checks THEN [cart |-> c, panic |-> TRUE]
    ELSE [cart |-> [c EXCEPT !.current_bank = (bank_number - 1) % 256], panic |-> FALSE]

\* Cartridge::write
CartridgeWrite(c, addr, value) ==
    IF addr >= 8192 /\ addr <= 16383 THEN CartridgeSetRomBank(c, value)
    ELSE [cart |-> c, panic |-> FALSE]

\* Addresses written: below, at both ends of, and above the bank-select range.
CartWriteAddrs == {8191, 8192, 16383, 16384}

\* Values written: bank numbers 0..3, and 0x20 and 0x21, whose low five bits
\* are 0 and 1.
CartWriteValues == {0, 1, 2, 3, 32, 33}

\* Addresses read: the ends of the fixed bank and of the bank window, and the
\* header.
CartReadAddrs == {0, 336, 16383, 16384, 16385, 32767}

\* The bus that owns the cartridge (MemoryBus::rom: Option<Cartridge>).
BusWith(cart) == [NewBus("none") EXCEPT !.rom = cart]

\* Cartridge::from on an image whose header declares 2 or 4 banks.
InitCart ==
    /\ overflow_checks \in BOOLEAN
    /\ cpu = NewCpu
    /\ \E mbc \in {"MBC1", "None"}, rom_banks \in {2, 4} :
           bus = BusWith(CartridgeFrom(mbc, rom_banks))
    /\ ppu = NewPpu
    /\ res = NoResult
    /\ prev = NoPrev
    /\ trace = <<>>
    /\ elapsed = 0
    /\ emu = NewEmulator

\* cartridge.write(addr, value)
DoCartWrite(addr, value) ==
    /\ res.kind # "Panic"
    /\ Len(trace) < MaxCartOps
    /\ LET w == CartridgeWrite(bus.rom, addr, value) IN
           /\ bus' = BusWith(w.cart)
           /\ res' = [kind |-> IF w.panic THEN "Panic" ELSE "Written", value |-> value]
    /\ trace' = Append(trace, [op |-> "write", addr |-> addr, value |-> value])
    /\ UNCHANGED <<cpu, ppu, prev, elapsed, emu, overflow_checks>>

\* cartridge.read(addr)
DoCartRead(addr) ==
    /\ res.kind # "Panic"
    /\ Len(trace) < MaxCartOps
    /\ LET r == CartridgeRead(bus.rom, addr) IN
           res' = [kind |-> IF r.panic THEN "Panic" ELSE "Read", value |-> r.value]
    /\ trace' = Append(trace, [op |-> "read", addr |-> addr, value |-> 0])
    /\ UNCHANGED <<cpu, bus, ppu, prev, elapsed, emu, overflow_checks>>

NextCart ==
    \/ \E addr \in CartWriteAddrs, value \in CartWriteValues : DoCartWrite(addr, value)
    \/ \E addr \in CartReadAddrs : DoCartRead(addr)

SpecCart == InitCart /\ [][NextCart]_vars

-----------------------------------------------------------------------------
(* The test harness: load_state on the emulator that tests::test_opcodes   *)
(* builds, Emulator::new with no cartridge loaded.                         *)

MaxLoads == 2
MaxRamEntries == 2

\* MemoryBus::clear: every block becomes 0xFF again; rom_banks and rom stay.
\* Without a cartridge every base byte is 0xFF, so the sparse map empties;
\* with one, the ROM blocks are overwritten byte by byte.
Clear(b) ==
    IF b.rom = "none" THEN [b EXCEPT !.mem = <<>>]
    ELSE [b EXCEPT !.mem = [x \in {a \in 0..32767 : BaseByte(b, a) # 255} |-> 255]]

\* Cpu::_load_state
CpuLoadState(c, s) ==
    [c EXCEPT !.a = s.a, !.b = s.b, !.c = s.c, !.d = s.d, !.e = s.e, !.f = s.f,
              !.h = s.h, !.l = s.l, !.sp = s.sp, !.pc = s.pc]

\* Cpu::_get_state
CpuGetState(c) == <<c.a, c.b, c.c, c.d, c.e, c.f, c.h, c.l, c.sp, c.pc>>

\* The for loop of load_state from entry i on: write_u8(mem_state[0],
\* mem_state[1] as u8) for each entry in list order; a panic ends it.
RECURSIVE LoadRam(_, _, _)
LoadRam(w, ram, i) ==
    IF w.panic \/ i > Len(ram) THEN w
    ELSE LoadRam(WriteU8(w.bus, ram[i][1], ram[i][2] % 256), ram, i + 1)

\* Emulator::load_state
LoadState(c, b, test) ==
    LET Loaded(w) == [cpu |-> CpuLoadState(c, test.initial), bus |-> w.bus, panic |-> w.panic]
    IN  Loaded(LoadRam([bus |-> Clear(b), panic |-> FALSE], test.initial.ram, 1))

\* Addresses and bytes of the sparse memory lists: ROM, the bank-select
\* range, work RAM, DIV, the boot-ROM latch and high RAM.
LoadAddrs == {0, 8192, 49152, 65284, 65360, 65535}
LoadValues == {18, 255}
LoadEntries == {<<a, v>> : a \in LoadAddrs, v \in LoadValues}

\* The sparse lists of at most MaxRamEntries entries, addresses distinct.
LoadRams ==
    UNION {{r \in [1..n -> LoadEntries] :
               \A i, j \in 1..n : i # j => r[i][1] # r[j][1]} : n \in 0..MaxRamEntries}

\* test::State values: two register files, F with and without low-nibble bits.
LoadStates ==
    {[a |-> rg[1], b |-> 2, c |-> 3, d |-> 4, e |-> 5, f |-> rg[2], h |-> 192, l |-> 7,
      sp |-> rg[3], pc |-> rg[4], ram |-> r] :
        rg \in {<<18, 176, 65534, 49152>>, <<255, 15, 0, 256>>}, r \in LoadRams}

NoTest == [initial |-> [ram |-> <<>>]]

InitLoad ==
    /\ overflow_checks = FALSE
    /\ cpu = NewCpu
    /\ bus = LoadBytes(NewBus("none"), 0, BootBytes)
    /\ ppu = NewPpu
    /\ res = NoResult
    /\ prev = NoPrev
    /\ trace = NoTest
    /\ elapsed = 0
    /\ emu = NewEmulator

\* self.load_state(&test)
DoLoadState(test) ==
    /\ res.kind # "Panic"
    /\ elapsed < MaxLoads
    /\ \E m \in {LoadState(cpu, bus, test)} :
           /\ cpu' = m.cpu
           /\ bus' = m.bus
           /\ res' = [kind |-> IF m.panic THEN "Panic" ELSE "Loaded", value |-> 0]
    /\ trace' = test
    /\ elapsed' = elapsed + 1
    /\ UNCHANGED <<ppu, prev, emu, overflow_checks>>

NextLoad == \E s \in LoadStates : DoLoadState([initial |-> s])

SpecLoad == InitLoad /\ [][NextLoad]_vars

-----------------------------------------------------------------------------
(* Properties of push_stack and pop_stack                                  *)

\* Bus state and bytes agree everywhere except at the addresses in S.
SameExcept(b1, b2, S) ==
    /\ b1.rom = b2.rom
    /\ b1.window = b2.window
    /\ b1.unmapped = b2.unmapped
    /\ \A a \in ((DOMAIN b1.mem) \cup (DOMAIN b2.mem)) \ S : ReadU8(b1, a) = ReadU8(b2, a)

\* An address write_u8 stores to without a side effect: not the bank-select
\* range 0x2000..=0x3FFF, not DIV (0xFF04), not the boot-ROM latch (0xFF50).
PlainAddr(a) == ~(a >= 8192 /\ a <= 16383) /\ a # 65284 /\ a # 65360

\* A push at trace position i that is followed by a pop.
PushThenPop(i) ==
    /\ i + 1 <= Len(trace)
    /\ trace[i].op = "push"
    /\ trace[i + 1].op = "pop"

-----------------------------------------------------------------------------
(* Properties of update_graphics                                           *)

Ly == ReadU8(bus, LyAddr)

\* The start of a frame: LY = 0 in OAMScan with the scanline counter at 0.
FrameStart ==
    /\ Ly = 0
    /\ ppu.mode = "OAMScan"
    /\ ppu.current_scanline_cycles = 0

\* C1 as stated: with the LCD enabled and only the PPU writing LY, from LY = 0
\* in OAMScan with the counter at 0 the PPU is back there for the first time
\* after exactly 154 scanlines (70,224 cycles); on the way LY takes every
\* value 0..153, one per scanline, and exactly the scanlines LY 144..153 are
\* spent in VBlank.
C1_FrameIs154Scanlines ==
    /\ (FrameStart /\ elapsed > 0) => elapsed = 154 * CYCLES_PER_SCANLINE
    /\ elapsed < 154 * CYCLES_PER_SCANLINE =>
        /\ Ly = elapsed \div CYCLES_PER_SCANLINE
        /\ ppu.mode = "VBlank" <=> Ly \in 144..153

ScanlineModes == <<"OAMScan", "DrawingPixels", "HBlank">>

\* C2: with the LCD enabled, from the start of a visible scanline LY = y <= 142
\* a total of 456 cycles fed in CPU-sized calls passes through OAMScan,
\* DrawingPixels and HBlank in that order and ends in OAMScan with LY = y + 1
\* and the counter at 0; LY changes exactly once, at the end.
C2_ScanlineModesInOrder ==
    elapsed <= 143 * CYCLES_PER_SCANLINE =>
        LET phase == elapsed % CYCLES_PER_SCANLINE IN
        /\ Ly = elapsed \div CYCLES_PER_SCANLINE
        /\ ppu.current_scanline_cycles = phase
        /\ Len(ppu.modes) \in 1..3
        /\ ppu.modes = SubSeq(ScanlineModes, 1, Len(ppu.modes))
        /\ ppu.mode = ppu.modes[Len(ppu.modes)]
        /\ phase = 0 => ppu.mode = "OAMScan"
        /\ phase >= CYCLES_PER_SCANLINE - 4 => ppu.mode = "HBlank"

\* C2 witness: three scanlines have been fed and the fourth is about to start.
C2_Witness ==
    /\ elapsed = 3 * CYCLES_PER_SCANLINE
    /\ res.kind = "Graphics"
    /\ LcdEnabled(bus)
    /\ Ly = 3
    /\ ppu.mode = "OAMScan"
    /\ ppu.current_scanline_cycles = 0

\* C3: when LCDC bit 7 is 0, update_graphics(n) changes nothing: LY, the frame
\* buffer, the mode, the scanline counter, the fetcher and the FIFO stay as
\* they are.
C3_LcdOffChangesNothing ==
    [][(~LcdEnabled(bus) /\ res'.kind = "Graphics") => (ppu' = ppu /\ bus' = bus)]_vars

\* C3 witness: update_graphics has been called with the display switched off
\* in the middle of drawing a scanline.
C3_Witness ==
    /\ ~LcdEnabled(bus)
    /\ res.kind = "Graphics"
    /\ ppu.mode = "DrawingPixels"
    /\ ppu.scanline_x > 0
    /\ elapsed > 0

\* C4: during one rendered scanline LY = y (0 <= y <= 143) the PPU writes
\* exactly 160 pixels, all at row y and at columns 0, 1, ..., 159 in
\* increasing order, and the first SCX & 7 pixels popped from the FIFO on that
\* scanline are dropped without being written.
C4_ScanlineWrites160 ==
    (Ly <= 143 /\ res.kind # "Panic") =>
        LET d == ReadU8(bus, ScxAddr) % 8
            w == ppu.frame_writes
        IN  /\ Len(w) = IF Len(ppu.popped) > d THEN Len(ppu.popped) - d ELSE 0
            /\ \A k \in 1..Len(w) :
                /\ w[k].index = (Ly * SCREEN_WIDTH) + (k - 1)
                /\ w[k].color = ppu.popped[k + d]
            /\ Len(w) <= SCREEN_WIDTH
            /\ ppu.mode = "OAMScan" => Len(ppu.popped) = 0
            /\ ppu.mode = "HBlank" => Len(w) = SCREEN_WIDTH

\* C4 witness: scanline 2 has been rendered with SCX = 5; 165 pixels were
\* popped and 160 written.
C4_Witness ==
    /\ ppu.mode = "HBlank"
    /\ Ly = 2
    /\ ReadU8(bus, ScxAddr) = 5
    /\ Len(ppu.popped) = 165
    /\ Len(ppu.frame_writes) = 160
    /\ ppu.frame_writes[160].index = 479

-----------------------------------------------------------------------------
(* Properties of execute_next_opcode                                       *)

\* The last logged call and the machine it started from.
LastEntry == trace[Len(trace)]

Before == Machine(prev.cpu, prev.bus)

\* The same state with the opcode byte at PC replaced.
WithOpcode(m, code) == [m EXCEPT !.bus = StoreByte(m.bus, m.cpu.pc, code)]

\* What SUB leaves from the state a CP started from: SUB A,B for CP A,B; for
\* CP A,n8 the 0xd6 arm of the dispatcher on the same operand descriptors.
SubFrom(m, cp) ==
    IF cp = 184 THEN ExecuteNextOpcode(WithOpcode(m, 144)).m
    ELSE DispatchNormal(m, 214, NormalOpcodes[cp].lhs, NormalOpcodes[cp].rhs).m

RunOfRlca(k) ==
    /\ k + 7 <= Len(trace)
    /\ \A j \in k..(k + 7) : trace[j].code = 7 /\ trace[j].kind = "Ok"

IncCodes == {4, 12, 20, 28, 36, 44, 52, 60}

DecCodes == {5, 13, 21, 29, 37, 45, 53, 61}

\* The byte an INC or DEC operand descriptor designates in a machine.
OperandByte(m, am) == ByteOperand(m, am).v

BootRun ==
    /\ Len(trace) >= 1
    /\ trace[1].pc0 = 0
    /\ \A i \in 1..Len(BootBytes) : ReadU8(bus, i - 1) = BootBytes[i]

\* C10: from PC = 0 with LD SP,0xFFFE; XOR A; LD HL,0x9FFF at 0..6, three
\* execute_next_opcode calls succeed, PC is 3, 4 and 7 after them, and they
\* leave SP = 0xFFFE, A = 0 with Z set and N, H, C cleared, HL = 0x9FFF.
C10_BootThreeSteps ==
    BootRun =>
        /\ trace[1].kind = "Ok" /\ trace[1].pc1 = 3
        /\ Len(trace) >= 2 => trace[2].kind = "Ok" /\ trace[2].pc1 = 4
        /\ Len(trace) >= 3 => trace[3].kind = "Ok" /\ trace[3].pc1 = 7
        /\ Len(trace) = 3 =>
            /\ cpu.sp = 65534
            /\ cpu.a = 0
            /\ GetZFlag(cpu) = 1
            /\ GetNFlag(cpu) = 0
            /\ GetHFlag(cpu) = 0
            /\ GetCFlag(cpu) = 0
            /\ RegHl(cpu) = 40959
            /\ cpu.pc = 7

\* C10 witness: the three boot instructions have run from A = 0xFF.
C10_Witness ==
    /\ BootRun
    /\ Len(trace) = 3
    /\ trace[1].a0 = 255
    /\ prev.cpu.sp = 65534
    /\ cpu.sp = 65534
    /\ RegHl(cpu) = 40959
    /\ cpu.a = 0
    /\ cpu.pc = 7

\* The opcode byte the last call decoded: the byte at PC, or after a 0xCB
\* prefix the byte at PC + 1, read from the state the call started in.
DecodedPrefixed == ReadU8(prev.bus, prev.cpu.pc) = 203

DecodedCode ==
    IF DecodedPrefixed THEN ReadU8(prev.bus, (prev.cpu.pc + 1) % 65536)
    ELSE ReadU8(prev.bus, prev.cpu.pc)

DecodedTable == IF DecodedPrefixed THEN PrefixedOpcodes ELSE NormalOpcodes

\* C11: when the decoded byte has no entry in the active opcode table the call
\* returns UnrecognizedOpcode(code, prefixed) with that byte and that prefix
\* flag, and PC, SP, the registers, the flags, ime and all of memory are as
\* they were before the call; the error is returned in no other case.
C11_UnrecognizedLeavesState ==
    Len(trace) > 0 =>
        /\ (DecodedCode \notin DOMAIN DecodedTable) <=> (res.kind = "UnrecognizedOpcode")
        /\ res.kind = "UnrecognizedOpcode" =>
               /\ res.value = DecodedCode
               /\ res.prefixed = DecodedPrefixed
               /\ cpu = prev.cpu
               /\ bus = prev.bus

\* C11 witness: 0xCB 0xFF, a prefixed code the prefixed table does not hold,
\* was refused.
C11_Witness ==
    /\ Len(trace) > 0
    /\ res.kind = "UnrecognizedOpcode"
    /\ res.prefixed
    /\ res.value = 255
    /\ cpu = prev.cpu
    /\ bus = prev.bus

\* C12 as stated: every call returns Ok(cycles) or one of the three CpuError
\* values; no call unwinds in a panic.
C12_NeverPanics ==
    res.kind \in {"None", "Ok", "UnrecognizedOpcode", "OpcodeNotImplemented", "OpcodeError"}

-----------------------------------------------------------------------------
(* Properties of Emulator::tick                                              *)

\* tick stands in its while loop with budget left, about to run an iteration.
InLoop == emu.phase = "loop" /\ emu.cycles_this_frame < MAX_CYCLES_PER_FRAME

\* What execute_next_opcode returns when called in the current state.
NextOutcome == ExecuteNextOpcode(Machine(cpu, bus))

CpuErrors == {"UnrecognizedOpcode", "OpcodeNotImplemented", "OpcodeError"}

\* C13: when execute_next_opcode returns an error inside tick, tick returns
\* that error at once: the iteration makes no timer update (timer_cycles and
\* the bus, DIV included, are unchanged) and no PPU update, the only call of
\* the iteration is the CPU step, the loop is left (no further instruction
\* runs in the call) and the result is the error, not a frame.
C13_ErrorReturnsImmediately ==
    [][(InLoop /\ NextOutcome.kind \in CpuErrors) =>
           /\ res'.kind = NextOutcome.kind
           /\ res'.value = NextOutcome.value
           /\ emu'.phase = "idle"
           /\ emu'.timer_cycles = emu.timer_cycles
           /\ emu'.cycles_this_frame = emu.cycles_this_frame
           /\ bus' = bus
           /\ ppu' = ppu
           /\ trace' = <<<<"cpu", 0>>>>]_vars

\* Two NOPs ran, then the byte 0xFF was fetched and tick returned the error.
C13_Witness ==
    /\ res.kind = "UnrecognizedOpcode"
    /\ res.value = 255
    /\ emu.phase = "idle"
    /\ emu.cycles_this_frame = 8
    /\ trace = <<<<"cpu", 0>>>>

\* C14: an iteration whose CPU step returns Ok(cycles) calls, in this order,
\* the CPU step, update_timers(cycles) and update_graphics(cycles); when
\* handle_interrupts reports an interrupt the pair update_timers(cycles),
\* update_graphics(cycles) runs once more.  Every PPU update directly follows
\* a timer update, and each of them gets the CPU step's cycle count.
C14_CpuThenTimerThenPpu ==
    [][(InLoop /\ NextOutcome.kind = "Ok" /\ emu'.phase = "loop") =>
           /\ Len(trace') \in {3, 5}
           /\ trace'[1] = <<"cpu", NextOutcome.value>>
           /\ \A i \in 2..Len(trace') :
                  trace'[i] = <<IF i % 2 = 0 THEN "timer" ELSE "ppu", NextOutcome.value>>]_vars

\* An iteration of the JR loop: CPU step of 12 cycles, timer, PPU.
C14_Witness ==
    /\ res.kind = "Running"
    /\ res.value = 12
    /\ trace = <<<<"cpu", 12>>, <<"timer", 12>>, <<"ppu", 12>>>>
    /\ emu.cycles_this_frame > 256

-----------------------------------------------------------------------------
(* Properties of the memory bus                                              *)

\* The last bus call was op.
BusCall(op) == res.kind # "None" /\ res.op = op

\* The last bus call was a write into the bank-select range 0x2000..=0x3FFF.
BankSelect == BusCall("write_u8") /\ res.addr >= 8192 /\ res.addr <= 16383

\* C15: read_u16(addr) returns read_u8(addr) | (read_u8(addr+1) << 8) for
\* every addr, the last byte of a memory block included.
C15_ReadU16IsTwoReadU8 ==
    BusCall("read_u16") =>
        /\ res.kind = "Read16"
        /\ res.value = ReadU8(bus, res.addr) + 256 * ReadU8(bus, res.addr + 1)

\* C16: a write of v into 0x2000..=0x3FFF makes the window show bank v & 0x1F,
\* or bank 1 when v & 0x1F = 0, and leaves the byte at the written address
\* as it was.
C16_BankSelectLowFiveBits ==
    BankSelect =>
        /\ res.kind = "Write"
        /\ LET b == IF res.value % 32 = 0 THEN 1 ELSE res.value % 32
           IN  \A a \in WindowSamples : ReadU8(bus, a) = CartByte(b * 16384 + (a - 16384))
        /\ ReadU8(bus, res.addr) = res.old

\* Addresses of the boot area that are compared (BootBytes covers them).
BootSamples == {0, 3}

\* C17: once 0xFF50 has been written, 0x0000..=0x00FF reads as the cartridge's
\* bytes whatever is written later; before that it reads as the boot ROM; the
\* write to 0xFF50 itself succeeds.
C17_BootRomOverlay ==
    /\ (BusCall("write_u8") /\ res.addr = 65360) => res.kind = "Write"
    /\ \A a \in BootSamples :
           ReadU8(bus, a) = IF trace.latched THEN CartByte(a) ELSE BootBytes[a + 1]

\* Addresses of the unusable gap 0xFEA0..=0xFEFF that are compared.
GapSamples == {65184, 65279}

\* C18: the unusable gap reads 0 in every reachable state, and a write to it
\* leaves the byte it addresses as it was.
C18_GapReadsZero ==
    /\ \A a \in GapSamples : ReadU8(bus, a) = 0
    /\ (BusCall("write_u8") /\ res.kind = "Write" /\ res.addr \in GapSamples)
           => ReadU8(bus, res.addr) = res.old

\* Offsets into work RAM and echo RAM that are compared.
EchoSamples == {0, 4096, 7679}

\* C19: echo RAM mirrors work RAM: 0xE000 + k reads as 0xC000 + k does.
C19_EchoMirrorsWorkRam ==
    \A k \in EchoSamples : ReadU8(bus, 57344 + k) = ReadU8(bus, 49152 + k)

\* C20: when a bank select leaves a bank and arrives at a bank that was
\* active before, the window shows the bytes it showed when that bank was
\* last left, bytes written through the bus included.
C20_BankContentsRetained ==
    (BankSelect /\ res.kind = "Write" /\ res.from # ActiveBank(bus)
        /\ trace.banks[ActiveBank(bus)] # <<>>)
        => WindowBytes(bus) = trace.banks[ActiveBank(bus)]

\* C21: get_range(start..end) returns OutOfRange exactly when end exceeds the
\* bus size; otherwise it returns as many bytes as the range holds, the i-th
\* being read_u8(start + i), also across block ends; the bus is unchanged in
\* both cases.
C21_GetRange ==
    [][(res'.kind # "None" /\ res'.op = "get_range") =>
           /\ bus' = bus
           /\ res'.kind = "OutOfRange" <=> res'.end > bus.size
           /\ res'.kind \in {"OutOfRange", "Range"}
           /\ res'.kind = "Range" =>
                  /\ Len(res'.value) =
                         (IF res'.end > res'.addr THEN res'.end - res'.addr ELSE 0)
                  /\ \A i \in 1..Len(res'.value) :
                         res'.value[i] = ReadU8(bus, res'.addr + i - 1)]_vars

\* get_range(0xFE9E..0xFEA2) has returned 4 bytes, two from OAM and two from
\* the unusable gap, after a write into the gap.
C21_Witness ==
    /\ BusCall("get_range")
    /\ res.kind = "Range"
    /\ res.addr = 65182
    /\ Len(res.value) = 4
    /\ ReadU8(bus, 65184) = 85
    /\ res.value[3] = 85

JrCondition(code) ==
    CASE code = 24 -> "None" [] code = 32 -> "NZ" [] code = 40 -> "Z"
      [] code = 48 -> "NC" [] code = 56 -> "C"

\* C23: JR at address p with signed offset e leaves PC = (p + 2 + e) mod 2^16
\* when the branch is taken and p + 2 when it is not; the unconditional form
\* returns the base cycle cost, a conditional form more than the base cost
\* exactly when the branch is taken.
C23_RelativeJump ==
    (Len(trace) = 1 /\ LastEntry.code \in {24, 32, 40, 48, 56} \cap DOMAIN NormalOpcodes) =>
        LET p == LastEntry.pc0
            e == AsI8(ReadU8(prev.bus, (p + 1) % 65536))
            taken == ConditionHolds(prev.cpu, JrCondition(LastEntry.code))
            base == NormalOpcodes[LastEntry.code].t_cycles
        IN  /\ res.kind = "Ok"
            /\ cpu.pc = (IF taken THEN p + 2 + e ELSE p + 2) % 65536
            /\ res.value >= base
            /\ res.value > base <=> (taken /\ LastEntry.code # 24)

\* The conditional JP cc,a16 and CALL cc,a16 opcodes and their conditions.
JpCcCodes == {194, 202, 210, 218}

CallCcCodes == {196, 204, 212, 220}

JumpConditionOf(code) ==
    CASE code \in {194, 196} -> "NZ" [] code \in {202, 204} -> "Z"
      [] code \in {210, 212} -> "NC" [] code \in {218, 220} -> "C"

\* The state a conditional instruction started from with Z and C inverted,
\* so that its condition holds when it did not and the reverse.
BeforeInverted == Machine([prev.cpu EXCEPT !.f = XorBits(@, 144, 8)], prev.bus)

\* C24: a JP cc,a16 or CALL cc,a16 whose condition is false advances PC by 3,
\* leaves SP and every memory byte unchanged, and returns fewer cycles than
\* the same instruction returns when its condition is true (where that
\* execution returns a count).
C24_ConditionFalse ==
    (/\ Len(trace) = 1
     /\ LastEntry.code \in JpCcCodes \cup CallCcCodes
     /\ ~ConditionHolds(prev.cpu, JumpConditionOf(LastEntry.code))) =>
        /\ res.kind = "Ok"
        /\ cpu.pc = (LastEntry.pc0 + 3) % 65536
        /\ cpu.sp = prev.cpu.sp
        /\ bus = prev.bus
        /\ \A t \in {ExecuteNextOpcode(BeforeInverted)} :
               t.kind = "Ok" => res.value < t.value

\* The non-prefixed accumulator rotates RLCA, RRCA, RLA, RRA.
AccumulatorRotates == {7, 15, 23, 31}

\* C25: RLCA, RLA, RRCA and RRA leave Z as it was and clear N and H; a
\* 0xCB-prefixed rotate (second byte 0x00..0x1F) sets Z exactly when its
\* result is 0.
C25_RotateZPolicy ==
    (Len(trace) = 1 /\ res.kind = "Ok") =>
        /\ LastEntry.code \in AccumulatorRotates =>
               /\ GetZFlag(cpu) = GetZFlag(prev.cpu)
               /\ GetNFlag(cpu) = 0
               /\ GetHFlag(cpu) = 0
        /\ (LastEntry.code = 203 /\ DecodedCode <= 31) =>
               GetZFlag(cpu) = (IF OperandByte(Machine(cpu, bus),
                                               PrefixedOpcodes[DecodedCode].lhs) = 0
                                THEN 1 ELSE 0)

-----------------------------------------------------------------------------
(* Properties of the test harness                                          *)

\* C26: after load_state(s) the inspected CPU state (A, B, C, D, E, F, H, L, SP,
\* PC) equals the values of s, and read_u8 returns the byte of every entry of
\* the sparse memory list of s, whatever the address of the entry.
C26_LoadStateRoundTrip ==
    trace # NoTest =>
        /\ res.kind = "Loaded"
        /\ LET s == trace.initial IN
           /\ CpuGetState(cpu) = <<s.a, s.b, s.c, s.d, s.e, s.f, s.h, s.l, s.sp, s.pc>>
           /\ \A i \in 1..Len(s.ram) : ReadU8(bus, s.ram[i][1]) = s.ram[i][2]

\* C27: for every opcode of the unprefixed and of the 0xCB-prefixed table, one
\* execute_next_opcode call from an initial state (registers, flags, SP, PC,
\* memory) produces the documented final state. The vectors themselves are
\* data outside the source; what every one of them requires is stated: the
\* call returns Ok, so that there is a final state to compare.
C27_GoldenVectorsPass ==
    (Len(trace) = 1 /\ DecodedCode \in DOMAIN DecodedTable) => res.kind = "Ok"

-----------------------------------------------------------------------------
(* Properties of the frame driver over a whole tick                        *)

\* C28: when tick returns the frame, the cycle counts passed to
\* update_graphics during the tick add up to the cycles added to the frame's
\* cycle counter in that tick, and so do the counts passed to update_timers,
\* interrupt iterations included.
C28_Lockstep ==
    res.kind = "Frame" =>
        /\ elapsed.ppu = emu.cycles_this_frame
        /\ elapsed.timers = emu.cycles_this_frame

-----------------------------------------------------------------------------
(* Properties of the pixel pipeline under split cycle budgets               *)

\* C29: with the LCD enabled, update_graphics(n) followed by
\* update_graphics(m) leaves the same PPU state (mode, LY, scanline counter,
\* fetcher sub-state, FIFO, scanline x, frame buffer) as one
\* update_graphics(n + m), for all n, m >= 0, odd n and one-cycle calls
\* included.
C29_SplitInsensitive ==
    (LcdEnabled(bus) /\ res.kind # "Panic") =>
        \A n, m \in SplitCounts \cup {0} :
            UpdateGraphics(UpdateGraphics(PpuState(ppu, bus), n), m)
                = UpdateGraphics(PpuState(ppu, bus), n + m)

\* The eight pixels of a tile row, bit 7 first.
RowPixels(lo, hi) == [k \in 1..8 |-> GetBit(hi, 8 - k) * 2 + GetBit(lo, 8 - k)]

\* The pixels of the scanline so far: those popped, then those waiting.
PixelsSoFar(p) == p.popped \o p.background_fifo

\* C30: whatever the cycle counts of the update_graphics calls and whatever
\* SCX, the background FIFO holds at most 16 entries, a fetcher Push adds
\* exactly 8 entries, the pixels leave the FIFO in the order they were pushed
\* (bit 7 of the tile row first), and Fifo::push never panics.
C30_FifoDiscipline ==
    [][/\ res'.kind # "Panic"
       /\ Len(ppu'.background_fifo) <= 16
       /\ \/ PixelsSoFar(ppu') = PixelsSoFar(ppu)
          \/ PixelsSoFar(ppu') = PixelsSoFar(ppu) \o RowPixels(ppu'.lo_byte, ppu'.hi_byte)]_vars

\* Two rows were pushed and at least nine pixels popped, under a fine
\* scroll, the last call with an odd budget.
C30_Witness ==
    /\ ppu.mode = "DrawingPixels"
    /\ Len(PixelsSoFar(ppu)) = 16
    /\ Len(ppu.popped) >= 9
    /\ ReadU8(bus, ScxAddr) % 8 # 0
    /\ res.value = 3

-----------------------------------------------------------------------------
(* Properties of the fetcher                                               *)

\* The address the tile data of tile t, sub-row r, is documented to be at.
TileDataAt(t, bit4, r) ==
    IF bit4 = 1 THEN 32768 + t * 16 + 2 * r
    ELSE 36864 + AsI8(t) * 16 + 2 * r

FetchedAt ==
    TileDataAt(ppu.tile_number, GetBit(ReadU8(bus, LcdcAddr), 4),
               (ReadU8(bus, LyAddr) + ReadU8(bus, ScyAddr)) % 8)

\* C31: for every tile number t, every value of LCDC bit 4 and every sub-row
\* r = (LY + SCY) mod 8, the fetcher's tile-data address is 0x8000 + t*16 + 2r
\* when LCDC bit 4 is set and 0x9000 + s*16 + 2r otherwise, s being t as a
\* signed byte; the low plane is read there and the high plane at the next
\* address.
C31_TileDataAddress ==
    /\ (ppu.fetcher_mode \in {"TileDataHigh", "Push"} =>
           /\ ppu.tile_addr = FetchedAt
           /\ ppu.lo_byte = ReadU8(bus, FetchedAt))
    /\ (ppu.fetcher_mode = "Push" => ppu.hi_byte = ReadU8(bus, FetchedAt + 1))

\* Tile 200 fetched through the signed table at sub-row 5, both planes read.
C31_Witness ==
    /\ trace = <<"GetTile", "TileDataLow", "TileDataHigh">>
    /\ ppu.tile_number = 200
    /\ GetBit(ReadU8(bus, LcdcAddr), 4) = 0
    /\ ppu.tile_addr = 36864 - 56 * 16 + 10
    /\ ppu.lo_byte # ppu.hi_byte

-----------------------------------------------------------------------------
(* Properties of the arithmetic and control-flow instructions              *)

AdcCodes == {136, 206}

SbcCodes == {152, 222}

\* The operand x of the ADC or SBC just executed: B, or the immediate byte.
CarryOperand ==
    IF LastEntry.code \in {136, 152} THEN prev.cpu.b
    ELSE ReadU8(prev.bus, (prev.cpu.pc + 1) % 65536)

BcdValue(byte) == (byte \div 16) * 10 + (byte % 16)

PackBcd(n) == (n \div 10) * 16 + (n % 10)

RotateOperand(c, b) ==
    IF ~DecodedPrefixed THEN c.a
    ELSE IF DecodedCode \in {17, 25} THEN c.c
    ELSE ReadU8(b, c.h * 256 + c.l)

RotateLeftCodes == {23, 17, 22}

RotateRightCodes == {31, 25, 30}

BitIndex == (DecodedCode - 64) \div 8

BitOperand ==
    IF DecodedCode % 8 = 4 THEN prev.cpu.h
    ELSE ReadU8(prev.bus, prev.cpu.h * 256 + prev.cpu.l)

RECURSIVE BitsValue(_, _)
BitsValue(x, n) == IF n = 0 THEN 0 ELSE BitsValue(x, n - 1) + GetBit(x, n - 1) * Pow2(n - 1)

C36_DiEi ==
    (Len(trace) = 1 /\ ~DecodedPrefixed /\ DecodedCode \in {243, 251}) =>
        /\ res.kind = "Ok"
        /\ cpu.ime = (DecodedCode = 251)
        /\ [cpu EXCEPT !.ime = FALSE, !.pc = 0] = [prev.cpu EXCEPT !.ime = FALSE, !.pc = 0]
        /\ cpu.pc = (prev.cpu.pc + 1) % 65536
        /\ bus = prev.bus

\* Work RAM and high RAM: bytes that every write_u8 stores as given.
PlainRam(addr) == addr \in (49152..57343) \cup (65408..65534)

\* C39: from PC = p and SP = s with both stack bytes in plain read/write
\* memory, CALL a16 sets PC = a16 and SP = s - 2 and stores p + 3 with its
\* high byte at s - 1 and its low byte at s - 2; RET executed next sets
\* PC = p + 3 and SP = s; for every p, s and a16.
C39_CallRetInverse ==
    /\ (/\ Len(trace) = 1
        /\ ~DecodedPrefixed /\ DecodedCode = 205
        /\ PlainRam((prev.cpu.sp - 1) % 65536)
        /\ PlainRam((prev.cpu.sp - 2) % 65536)) =>
           LET p == prev.cpu.pc
               sp0 == prev.cpu.sp
               a16 == Word(ReadU8(prev.bus, (p + 2) % 65536), ReadU8(prev.bus, (p + 1) % 65536))
           IN  /\ res.kind = "Ok"
               /\ cpu.pc = a16
               /\ cpu.sp = (sp0 - 2) % 65536
               /\ ReadU8(bus, (sp0 - 1) % 65536) = Hi((p + 3) % 65536)
               /\ ReadU8(bus, (sp0 - 2) % 65536) = Lo((p + 3) % 65536)
    /\ (/\ Len(trace) = 2
        /\ trace[1].code = 205 /\ trace[1].kind = "Ok"
        /\ ~DecodedPrefixed /\ DecodedCode = 201
        /\ PlainRam(prev.cpu.sp) /\ PlainRam((prev.cpu.sp + 1) % 65536)) =>
           /\ res.kind = "Ok"
           /\ cpu.pc = (trace[1].pc0 + 3) % 65536
           /\ cpu.sp = (prev.cpu.sp + 2) % 65536

-----------------------------------------------------------------------------
(* Properties of the divider register                                      *)

\* The byte DIV holds when the emulator is built.
DivAtReset == ReadU8(NewBus("plain"), DivAddr)

\* C37: while the program does not write 0xFF04 itself, DIV has advanced by
\* floor(T / 256) mod 256 once the frame loop has fed T cycles to
\* update_timers: one step for every 256 cycles, no cycle lost in between.
C37_DivCounts ==
    emu.frames = 1 =>
        ReadU8(bus, DivAddr) = (DivAtReset + (elapsed.timers \div DIV_UPDATE_FREQ)) % 256

-----------------------------------------------------------------------------
(* Termination of Emulator::tick                                           *)

\* The t_cycles of every row of the two opcode tables.
TableCycles ==
    {NormalOpcodes[k].t_cycles : k \in DOMAIN NormalOpcodes}
        \cup {PrefixedOpcodes[k].t_cycles : k \in DOMAIN PrefixedOpcodes}

\* The largest cost of one instruction, a taken CALL.
LargestInstructionCost == CHOOSE c \in TableCycles : \A d \in TableCycles : d <= c

\* The cycles handle_interrupts adds when it dispatches an interrupt.
InterruptCost == CHOOSE c \in {o.cycles : o \in IrqOutcomes} : \A o \in IrqOutcomes : o.cycles <= c

\* What holds of the loop whatever the bound on the counter at its exit: no
\* table row costs less than 4 cycles and no iteration adds less; the counter
\* grows in every iteration; at the budget the next step is the return; no
\* frame takes more than 70,224 / 4 iterations; an entered tick leaves its loop.
TickStepsAtLeastFour ==
    /\ \A c \in TableCycles : c >= 4
    /\ (emu.phase = "loop" /\ elapsed.calls > 0) => res.value >= 4
    /\ elapsed.calls <= MAX_CYCLES_PER_FRAME \div 4

TickCounterGrows ==
    /\ (emu.phase = "loop" /\ emu'.phase = "loop") =>
           emu'.cycles_this_frame > emu.cycles_this_frame
    /\ (emu.phase = "loop" /\ emu.cycles_this_frame >= MAX_CYCLES_PER_FRAME) =>
           (emu'.phase = "idle" /\ res'.kind = "Frame")

TickLeavesLoop == (emu.phase = "loop") ~> (emu.phase # "loop")

\* C38 as stated: tick terminates when no error occurs; every successful
\* execute_next_opcode returns at least 4 cycles, the frame's cycle counter
\* grows in every iteration, the loop exits as soon as the counter reaches
\* 70,224, after at most 17,556 instructions, with the counter below 70,224
\* plus the largest single-instruction cost.
C38_TickTerminatesTight ==
    /\ [](TickStepsAtLeastFour)
    /\ [][TickCounterGrows]_vars
    /\ TickLeavesLoop
    /\ [](emu.cycles_this_frame < MAX_CYCLES_PER_FRAME + LargestInstructionCost)

\* C38, amended: the same, with the counter below 70,224 plus the largest
\* single-instruction cost plus the cycles of one interrupt dispatch, which
\* the last iteration adds to the counter when it dispatches an interrupt.
C38_TickTerminates ==
    /\ [](TickStepsAtLeastFour)
    /\ [][TickCounterGrows]_vars
    /\ TickLeavesLoop
    /\ [](emu.cycles_this_frame <
              MAX_CYCLES_PER_FRAME + LargestInstructionCost + InterruptCost)

\* A frame of `JR -2` returned after 5,851 iterations, the last of which
\* dispatched an interrupt at counter 70,220 and left the counter at 70,252.
C38_Witness ==
    /\ res.kind = "Frame"
    /\ elapsed.calls = 5851
    /\ emu.cycles_this_frame = MAX_CYCLES_PER_FRAME + LargestInstructionCost + 4

-----------------------------------------------------------------------------
(* Properties of the cartridge                                             *)

\* The bank-select writes of a run, in order.
BankSelects == SelectSeq(trace, LAMBDA e : e.op = "write" /\ e.addr \in 8192..16383)

\* The bank a written value selects: its low five bits, or 1 when they are 0.
SelectedBank(value) == IF value % 32 = 0 THEN 1 ELSE value % 32

\* C40: for an MBC1 cartridge of N banks, read(0x4000 + k) returns image byte
\* 0x4000 + k before any bank-select write, and image byte n * 0x4000 + k
\* after a write to 0x2000..=0x3FFF that selects bank n < N; read(a) for
\* a < 0x4000 returns image byte a whatever bank is selected.
C40_BankedRead ==
    (/\ Len(trace) >= 1
     /\ LastEntry.op = "read"
     /\ bus.rom.mbc = "MBC1") =>
        LET a == LastEntry.addr
            n == IF BankSelects = <<>> THEN 1
                 ELSE SelectedBank(BankSelects[Len(BankSelects)].value)
        IN  /\ a < 16384 => (res.kind = "Read" /\ res.value = CartByte(a))
            /\ (a >= 16384 /\ n < bus.rom.banks) =>
                   (res.kind = "Read" /\ res.value = CartByte(n * 16384 + (a - 16384)))

====
